---- MODULE Spec2Model ----
(***************************************************************************)
(* A model of CruxExtractor (src/index.js): the request planner            *)
(* (buildRequestUrls), the sequential fetcher (fetchData), the normalizer  *)
(* (normalizeData), the two sheet writers (addToSpreadsheet,               *)
(* logExecutionHistory) and the orchestrator (run).                        *)
(*                                                                         *)
(* JavaScript values are tagged records, so that a string, a number,       *)
(* undefined and null stay distinct and the operators ??, || and ! can be  *)
(* modelled by what they do.                                               *)
(***************************************************************************)
EXTENDS Integers, Sequences, FiniteSets, TLC

(* ---------------------------- JavaScript values ------------------------ *)

Undefined == [undef |-> TRUE]

Null == [null |-> TRUE]

Str(s) == [str |-> s]

Num(n) == [num |-> n]

\* An array is wrapped so that it never compares against a record by accident.
Arr(s) == [arr |-> s]

\* x == null (x is undefined or null): what ?? and ?. test.
Nullish(v) == v \in {Undefined, Null}

\* !v : undefined, null, "", 0 are the falsy values that occur here.
Falsy(v) == v \in {Undefined, Null, Str(""), Num(0)}

\* a ?? b
Coalesce(a, b) == IF Nullish(a) THEN b ELSE a

\* a || b
OrElse(a, b) == IF Falsy(a) THEN b ELSE a

\* The sentinel written for every absent value.
Dash == Str("-")

(* ------------------------------- bounds -------------------------------- *)

\* Longest configured url list.
MaxUrls == 2

\* Longest configured form factor list.
MaxFactors == 2

\* Largest product Len(urls) * Len(formFactor) of a configuration.
MaxPairs == 2

(* --------------------------- configuration ----------------------------- *)

\* CruxExtractor.CONFIG
HTTP_STATUS_OK == 200

COLUMN_COUNT == 19

HISTORY_COLUMN_COUNT == 8

\* Candidate url strings: two http(s) urls, one absolute url of another
\* scheme, and one string that does not parse as an absolute url.
UrlPool == {"https://a.com", "http://b.org", "ftp://c.net", "invalid-url"}

\* Candidate form factor tokens: two accepted ones and a stray one.
FactorPool == {"PHONE", "ALL_FORM_FACTORS", "INVALID_FACTOR"}

\* All sequences over S of length 1..n.
SeqsUpTo(S, n) == UNION {[1..k -> S] : k \in 1..n}

\* new URL(s): throws a TypeError on a string that is not an absolute url,
\* otherwise yields an object whose protocol is the lower-cased scheme + ":".
NewURL(s) ==
  CASE s = "https://a.com" -> [threw |-> FALSE, protocol |-> "https:"]
    [] s = "http://b.org"  -> [threw |-> FALSE, protocol |-> "http:"]
    [] s = "ftp://c.net"   -> [threw |-> FALSE, protocol |-> "ftp:"]
    [] OTHER               -> [threw |-> TRUE, protocol |-> ""]

\* JSON.stringify / JSON.parse: a text is either the serialisation of a value
\* or a string that is no JSON at all.
JSONStringify(v) == [json |-> v]

NotJSON(s) == [garbage |-> s]

JSONParses(t) == "json" \in DOMAIN t

JSONParse(t) == t.json

\* obj.field and obj?.field: undefined when obj is nullish or has no such field.
Get(obj, field) ==
  IF Nullish(obj) \/ field \notin DOMAIN obj THEN Undefined ELSE obj[field]

\* arr[i] with a 0-based index: undefined outside the array or on a non-array.
At(a, i) ==
  IF "arr" \in DOMAIN a /\ i + 1 \in DOMAIN a.arr THEN a.arr[i + 1] ELSE Undefined

(* ------------------------------ state ---------------------------------- *)

VARIABLES
  urls,               \* this.urls
  formFactor,         \* this.formFactor
  requests,           \* this.requests (Undefined until buildRequestUrls)
  filteredResponse,   \* this.filteredResponse (Undefined until fetchData)
  executionRecords,   \* this.executionRecords (Undefined until fetchData)
  normalizedResponse, \* this.normalizedResponse (Undefined until normalizeData)
  dataSheet,          \* the sheetTabName tab: Undefined when absent, else Arr(rows)
  historySheet,       \* the executionHistory tab: Undefined when absent, else Arr(rows)
  pc,                 \* position of run()
  reqIndex,           \* fetchData's loop index (0-based)
  response,           \* outcome of the UrlFetchApp.fetch call in flight
  executionId,        \* run's executionId
  thrown,             \* the error propagating out of the failed stage ("" when none)
  fetchReturn,        \* how the last fetchData call ended: "none", "returned", "threw"
  summary,            \* run's return value (Undefined until returned)
  leaving,            \* the error that has left run ("" while none has)
  httpLog,            \* payload texts handed to UrlFetchApp.fetch, in call order
  sleeps,             \* number of Utilities.sleep calls
  flushLog,           \* one entry per logExecutionHistory call made by run
  sheets0,            \* <<dataSheet, historySheet>> as the instance found them
  executionFlag,      \* the global executionFlag
  mainLog,            \* what each invocation of main did, in call order
  config,             \* the argument of `new CruxExtractor(config)` (Undefined: not kept)
  self                \* the instance's other stored fields (Undefined: no instance)

vars == <<urls, formFactor, requests, filteredResponse, executionRecords,
          normalizedResponse, dataSheet, historySheet, pc, reqIndex, response,
          executionId, thrown, fetchReturn, summary, leaving, httpLog, sleeps,
          flushLog, sheets0, executionFlag, mainLog,
                 config, self>>

\* The stored fields of an instance constructed as the tests construct it.
TestSelf ==
  [spreadsheetId |-> "test-sheet-id",
   apiKey |-> "test-api-key",
   cruxUrl |-> "https://chromeuxreport.googleapis.com/v1/records:queryRecord?alt=json&key=test-api-key",
   sheetTabName |-> "cruxData"]

(* --------------------------- Request Planner ---------------------------- *)

isValidUrl_AnyScheme(urlString) ==
  IF urlString = "" THEN FALSE
  ELSE LET url == NewURL(urlString) IN ~url.threw

isValidUrl(urlString) ==
  IF urlString = "" THEN FALSE
  ELSE LET url == NewURL(urlString) IN
         IF url.threw THEN FALSE
         ELSE url.protocol = "http:" \/ url.protocol = "https:"

validFormFactors == {"PHONE", "DESKTOP", "ALL_FORM_FACTORS"}

\* The request object pushed for one (url, formFactor) pair.
RequestFor(currentUrl, factor) ==
  [method |-> "post",
   muteHttpExceptions |-> TRUE,
   contentType |-> "application/json",
   payload |-> JSONStringify([url |-> Str(currentUrl), formFactor |-> Str(factor)])]

\* The inner loop of buildRequestUrls over this.formFactor, from index j.
RECURSIVE FactorLoop(_, _, _)
FactorLoop(currentUrl, factors, j) ==
  IF j > Len(factors) THEN <<>>
  ELSE (IF factors[j] \in validFormFactors
          THEN <<RequestFor(currentUrl, factors[j])>>
          ELSE <<>>)
       \o FactorLoop(currentUrl, factors, j + 1)

\* The outer loop of buildRequestUrls over this.urls, from index i.
RECURSIVE UrlLoop(_, _, _)
UrlLoop(us, factors, i) ==
  IF i > Len(us) THEN <<>>
  ELSE (IF isValidUrl(us[i]) THEN FactorLoop(us[i], factors, 1) ELSE <<>>)
       \o UrlLoop(us, factors, i + 1)

NoCombinationsError == "No valid URL/form factor combinations to process"

\* buildRequestUrls without the check for an empty request list.
buildRequestUrls_NoEmptyCheck(us, factors) ==
  [requests |-> Arr(UrlLoop(us, factors, 1)), error |-> ""]

\* buildRequestUrls: the value it leaves in this.requests and the error it
\* throws ("" when it returns this.requests).
buildRequestUrls(us, factors) ==
  LET built == UrlLoop(us, factors, 1) IN
    [requests |-> Arr(built),
     error |-> IF Len(built) = 0 THEN NoCombinationsError ELSE ""]

(* ------------------------------- Fetcher -------------------------------- *)

\* A metric object as the API returns it: three histogram buckets and p75.
FullMetric(d0, d1, d2, p) ==
  [histogram |-> Arr(<<[density |-> Num(d0)], [density |-> Num(d1)],
                       [density |-> Num(d2)]>>),
   percentiles |-> [p75 |-> Num(p)]]

\* All four tracked metrics present and fully populated.
FullMetrics ==
  [largest_contentful_paint |-> FullMetric(70, 20, 10, 2500),
   first_input_delay        |-> FullMetric(80, 15, 5, 100),
   cumulative_layout_shift  |-> FullMetric(75, 20, 5, 1),
   first_contentful_paint   |-> FullMetric(65, 25, 10, 1800)]

\* Only LCP present, with one bucket and no percentiles.
SparseMetrics ==
  [largest_contentful_paint |-> [histogram |-> Arr(<<[density |-> Num(0)]>>)]]

\* The JSON payloads the API may answer a request body with: the record of
\* the requested key; a record whose key has no formFactor; an object
\* without a record.
PayloadsFor(body) ==
  { [record |-> [key |-> [url |-> body.url, formFactor |-> body.formFactor],
                 metrics |-> FullMetrics]],
    [record |-> [key |-> [url |-> body.url], metrics |-> SparseMetrics]],
    [invalid |-> Str("structure")] }

\* What UrlFetchApp.fetch can do with one request: throw, or return a
\* response with a status code and a content text.
HttpOutcomes(body) ==
  { [threw |-> TRUE, message |-> "Timeout", code |-> 0, text |-> NotJSON("")] }
  \cup { [threw |-> FALSE, message |-> "", code |-> 500, text |-> NotJSON("Server Error")],
         [threw |-> FALSE, message |-> "", code |-> HTTP_STATUS_OK,
          text |-> NotJSON("invalid-json{")] }
  \cup { [threw |-> FALSE, message |-> "", code |-> HTTP_STATUS_OK,
          text |-> JSONStringify(p)] : p \in PayloadsFor(body) }

\* Classify with status set to SUCCESS before the body is parsed.
Classify_SuccessBeforeParse(out) ==
  IF out.threw
    THEN [status |-> "FAILED", responseCode |-> Str("-"),
          errorMessage |-> Str("Fetch error: " \o out.message), push |-> FALSE]
  ELSE IF out.code # HTTP_STATUS_OK
    THEN [status |-> "FAILED", responseCode |-> Num(out.code),
          errorMessage |-> Str("Non-200 response: " \o out.text.garbage),
          push |-> FALSE]
  ELSE IF JSONParses(out.text)
    THEN [status |-> "SUCCESS", responseCode |-> Num(out.code),
          errorMessage |-> Dash, push |-> TRUE]
  ELSE [status |-> "SUCCESS", responseCode |-> Num(out.code),
        errorMessage |-> Str("JSON parse error: Unexpected token"),
        push |-> FALSE]

\* The body of one loop iteration of fetchData after UrlFetchApp.fetch has
\* returned or thrown: status, responseCode, errorMessage, and whether the
\* parsed content is pushed to this.filteredResponse.
Classify(out) ==
  IF out.threw
    THEN [status |-> "FAILED", responseCode |-> Str("-"),
          errorMessage |-> Str("Fetch error: " \o out.message), push |-> FALSE]
  ELSE IF out.code # HTTP_STATUS_OK
    THEN [status |-> "FAILED", responseCode |-> Num(out.code),
          errorMessage |-> Str("Non-200 response: " \o out.text.garbage),
          push |-> FALSE]
  ELSE IF JSONParses(out.text)
    THEN [status |-> "SUCCESS", responseCode |-> Num(out.code),
          errorMessage |-> Dash, push |-> TRUE]
  ELSE [status |-> "FAILED", responseCode |-> Num(out.code),
        errorMessage |-> Str("JSON parse error: Unexpected token"),
        push |-> FALSE]

\* The record pushed to this.executionRecords at the end of an iteration.
ExecutionRecord(body, c) ==
  [url |-> body.url,
   formFactor |-> body.formFactor,
   status |-> Str(c.status),
   responseCode |-> c.responseCode,
   errorMessage |-> c.errorMessage,
   normalized |-> Str("NO")]

Push(a, v) == Arr(Append(a.arr, v))

Length(a) == Len(a.arr)

(* ------------------------------ Normalizer ------------------------------ *)

\* extractMetric with one cell per histogram entry instead of three fixed ones.
extractMetric_MapHistogram(metric) ==
  IF Falsy(metric) THEN <<Dash, Dash, Dash, Dash>>
  ELSE LET hist == OrElse(Get(metric, "histogram"), Arr(<<>>)) IN
         [k \in 1..Len(hist.arr) |-> Coalesce(Get(hist.arr[k], "density"), Dash)]
         \o << Coalesce(Get(Get(metric, "percentiles"), "p75"), Dash) >>

\* extractMetric defaulting with || instead of ??.
extractMetric_OrDash(metric) ==
  IF Falsy(metric) THEN <<Dash, Dash, Dash, Dash>>
  ELSE LET hist == OrElse(Get(metric, "histogram"), Arr(<<>>)) IN
         << OrElse(Get(At(hist, 0), "density"), Dash),
            OrElse(Get(At(hist, 1), "density"), Dash),
            OrElse(Get(At(hist, 2), "density"), Dash),
            OrElse(Get(Get(metric, "percentiles"), "p75"), Dash) >>

\* extractMetric: the four cells of one metric.
extractMetric(metric) ==
  IF Falsy(metric) THEN <<Dash, Dash, Dash, Dash>>
  ELSE LET hist == OrElse(Get(metric, "histogram"), Arr(<<>>)) IN
         << Coalesce(Get(At(hist, 0), "density"), Dash),
            Coalesce(Get(At(hist, 1), "density"), Dash),
            Coalesce(Get(At(hist, 2), "density"), Dash),
            Coalesce(Get(Get(metric, "percentiles"), "p75"), Dash) >>

\* The guard of the loop body: a response without record.key or
\* record.metrics is skipped.
InvalidStructure(resp) ==
  \/ Falsy(Get(Get(resp, "record"), "key"))
  \/ Falsy(Get(Get(resp, "record"), "metrics"))

\* The row without its date cell.
NormalizedRow_NoDate(resp, timeStamp) ==
  LET key     == resp.record.key
      metrics == resp.record.metrics
  IN  << OrElse(Get(key, "formFactor"), Str("AGGREGATED")), Get(key, "url") >>
      \o extractMetric(Get(metrics, "largest_contentful_paint"))
      \o extractMetric(Get(metrics, "first_input_delay"))
      \o extractMetric(Get(metrics, "cumulative_layout_shift"))
      \o extractMetric(Get(metrics, "first_contentful_paint"))

\* The row pushed to this.normalizedResponse for one response.
NormalizedRow(resp, timeStamp) ==
  LET key     == resp.record.key
      metrics == resp.record.metrics
  IN  << Str(timeStamp), OrElse(Get(key, "formFactor"), Str("AGGREGATED")),
         Get(key, "url") >>
      \o extractMetric(Get(metrics, "largest_contentful_paint"))
      \o extractMetric(Get(metrics, "first_input_delay"))
      \o extractMetric(Get(metrics, "cumulative_layout_shift"))
      \o extractMetric(Get(metrics, "first_contentful_paint"))

\* findIndex matching url and formFactor only, whatever the status.
FindRecordIndex_AnyStatus(recs, url, factor) ==
  LET hits == { k \in 1..Len(recs) : /\ recs[k].url = url
                                     /\ recs[k].formFactor = factor }
  IN  IF hits = {} THEN 0 ELSE CHOOSE k \in hits : \A m \in hits : k <= m

\* executionRecords.findIndex(url, formFactor, status SUCCESS): the 1-based
\* index of the first match, 0 when there is none.
FindRecordIndex(recs, url, factor) ==
  LET hits == { k \in 1..Len(recs) : /\ recs[k].url = url
                                     /\ recs[k].formFactor = factor
                                     /\ recs[k].status = Str("SUCCESS") }
  IN  IF hits = {} THEN 0 ELSE CHOOSE k \in hits : \A m \in hits : k <= m

\* The loop of normalizeData over this.filteredResponse from index i, with
\* the rows and the records accumulated so far.
RECURSIVE NormalizeLoop(_, _, _, _, _)
NormalizeLoop(resps, i, rows, recs, timeStamp) ==
  IF i > Len(resps) THEN [rows |-> rows, recs |-> recs]
  ELSE IF InvalidStructure(resps[i])
    THEN NormalizeLoop(resps, i + 1, rows, recs, timeStamp)
  ELSE LET Body(row) ==
             LET recordIndex == FindRecordIndex(recs, row[3], row[2])
                 recs2 == IF recordIndex # 0
                            THEN [recs EXCEPT ![recordIndex].normalized = Str("YES")]
                            ELSE recs
             IN  NormalizeLoop(resps, i + 1, Append(rows, row), recs2, timeStamp)
       IN  \* the row is built once per iteration
           CHOOSE out \in { Body(row) : row \in {NormalizedRow(resps[i], timeStamp)} } :
             TRUE

NoResponsesError == "No responses to normalize. Call fetchData() first."

AllFailedError == "All responses failed normalization"

\* normalizeData returning its rows without the check for zero rows.
normalizeData_NoAllFailedCheck(fr, er, nr, timeStamp) ==
  IF Falsy(fr) \/ Length(fr) = 0
    THEN [normalizedResponse |-> nr, executionRecords |-> er,
          error |-> NoResponsesError]
  ELSE LET r == NormalizeLoop(fr.arr, 1, <<>>, er.arr, timeStamp) IN
         [normalizedResponse |-> Arr(r.rows),
          executionRecords |-> Arr(r.recs),
          error |-> ""]

\* normalizeData: the values it leaves in this.normalizedResponse and
\* this.executionRecords, and the error it throws ("" when it returns).
normalizeData(fr, er, nr, timeStamp) ==
  IF Falsy(fr) \/ Length(fr) = 0
    THEN [normalizedResponse |-> nr, executionRecords |-> er,
          error |-> NoResponsesError]
  ELSE LET r == NormalizeLoop(fr.arr, 1, <<>>, er.arr, timeStamp) IN
         [normalizedResponse |-> Arr(r.rows),
          executionRecords |-> Arr(r.recs),
          error |-> IF Len(r.rows) = 0 THEN AllFailedError ELSE ""]

(* ------------------------------ Sink Writer ----------------------------- *)

\* The points at which a spreadsheet call of a writer may throw.
SheetFaults == {"none", "openById", "header", "setValues"}

\* The error of a failed spreadsheet call on a tab.
SheetError(tab) == "Service Spreadsheets failed while accessing " \o tab

\* sheetTabName (default) and CONFIG.HISTORY_SHEET_NAME
DataTab == "cruxData"

HistoryTab == "executionHistory"

\* sheet.getLastRow()
GetLastRow(sheet) == Len(sheet.arr)

\* sheet.getRange(startRow, 1, n, cols).setValues(rows): rows land on
\* startRow .. startRow + n - 1, replacing what was there.
SetValues(sheet, startRow, rows) ==
  LET last == IF GetLastRow(sheet) > startRow + Len(rows) - 1
                THEN GetLastRow(sheet) ELSE startRow + Len(rows) - 1
  IN  Arr([k \in 1..last |->
             IF k >= startRow /\ k < startRow + Len(rows)
               THEN rows[k - startRow + 1]
               ELSE sheet.arr[k]])

DataHeaders ==
  << Str("Date"), Str("Platform"), Str("URL"),
     Str("LCP (Good)"), Str("LCP (Needs Improvement)"), Str("LCP (Poor)"),
     Str("LCP (75th Percentile)"),
     Str("FID (Good)"), Str("FID (Needs Improvement)"), Str("FID (Poor)"),
     Str("FID (75th Percentile)"),
     Str("CLS (Good)"), Str("CLS (Needs Improvement)"), Str("CLS (Poor)"),
     Str("CLS (75th Percentile)"),
     Str("FCP (Good)"), Str("FCP (Needs Improvement)"), Str("FCP (Poor)"),
     Str("FCP (75th Percentile)") >>

HistoryHeaders ==
  << Str("Execution ID"), Str("Timestamp"), Str("URL"), Str("Form Factor"),
     Str("Status"), Str("Response Code"), Str("Error Message"),
     Str("Normalized") >>

NoDataError == "No normalized data to write. Call normalizeData() first."

\* Resolve a tab, creating it with its header row when absent: the sheet
\* afterwards and the error thrown on the way ("" when none).
ResolveSheet(tab, sheet, headers, fault) ==
  IF fault = "openById" THEN [sheet |-> sheet, error |-> SheetError(tab)]
  ELSE IF ~Falsy(sheet) THEN [sheet |-> sheet, error |-> ""]
  ELSE IF fault = "header" THEN [sheet |-> Arr(<<>>), error |-> SheetError(tab)]
  ELSE [sheet |-> SetValues(Arr(<<>>), 1, <<headers>>), error |-> ""]

\* Append rows below the last populated row.
AppendRows(tab, sheet, rows, fault) ==
  IF fault = "setValues" THEN [sheet |-> sheet, error |-> SheetError(tab)]
  ELSE [sheet |-> SetValues(sheet, GetLastRow(sheet) + 1, rows), error |-> ""]

\* addToSpreadsheet: the data tab afterwards and the error thrown.
addToSpreadsheet(nr, sheet, fault) ==
  IF Falsy(nr) \/ Length(nr) = 0 THEN [sheet |-> sheet, error |-> NoDataError]
  ELSE LET got == ResolveSheet(DataTab, sheet, DataHeaders, fault) IN
         IF got.error # "" THEN got
         ELSE AppendRows(DataTab, got.sheet, nr.arr, fault)

\* getExecutionHistorySheet: get or create the executionHistory tab; an
\* error is logged and rethrown.
getExecutionHistorySheet(sheet, fault) ==
  ResolveSheet(HistoryTab, sheet, HistoryHeaders, fault)

\* The audit row with the timestamp put first and the id second.
HistoryRow_TimestampFirst(id, timestamp, record) ==
  << Str(timestamp), Str(id),
     OrElse(Get(record, "url"), Dash),
     OrElse(Get(record, "formFactor"), Dash),
     OrElse(Get(record, "status"), Str("UNKNOWN")),
     OrElse(Get(record, "responseCode"), Dash),
     OrElse(Get(record, "errorMessage"), Dash),
     OrElse(Get(record, "normalized"), Str("NO")) >>

\* One audit row.
HistoryRow(id, timestamp, record) ==
  << Str(id), Str(timestamp),
     OrElse(Get(record, "url"), Dash),
     OrElse(Get(record, "formFactor"), Dash),
     OrElse(Get(record, "status"), Str("UNKNOWN")),
     OrElse(Get(record, "responseCode"), Dash),
     OrElse(Get(record, "errorMessage"), Dash),
     OrElse(Get(record, "normalized"), Str("NO")) >>

\* The try block resolving the tab before looking at the records.
LogHistoryTry_SheetFirst(id, records, timestamp, sheet, fault) ==
  LET got == getExecutionHistorySheet(sheet, fault) IN
    IF got.error # "" THEN got
    ELSE IF Falsy(records) \/ Length(records) = 0 THEN got
    ELSE AppendRows(HistoryTab, got.sheet,
                    [k \in 1..Length(records) |->
                       HistoryRow(id, timestamp, records.arr[k])],
                    fault)

\* The try block of logExecutionHistory.
LogHistoryTry(id, records, timestamp, sheet, fault) ==
  IF Falsy(records) \/ Length(records) = 0 THEN [sheet |-> sheet, error |-> ""]
  ELSE LET got == getExecutionHistorySheet(sheet, fault) IN
         IF got.error # "" THEN got
         ELSE AppendRows(HistoryTab, got.sheet,
                         [k \in 1..Length(records) |->
                            HistoryRow(id, timestamp, records.arr[k])],
                         fault)

logExecutionHistory_Rethrow(id, records, timestamp, sheet, fault) ==
  LogHistoryTry(id, records, timestamp, sheet, fault)

\* logExecutionHistory: the catch block logs the error and drops it.
logExecutionHistory(id, records, timestamp, sheet, fault) ==
  [sheet |-> LogHistoryTry(id, records, timestamp, sheet, fault).sheet,
   error |-> ""]

(* ------------------------- initial state -------------------------------- *)

\* `exec_${Date.now()}_${random}`
ExecIds == {"exec_1700000000000_42"}

\* Utilities.formatDate(new Date(), tz, "dd-MM-yyyy")
Dates == {"04-11-2026"}

\* Utilities.formatDate(new Date(), tz, "dd-MM-yyyy HH:mm:ss")
Timestamps == {"04-11-2026 23:59:58", "05-11-2026 00:00:01"}

\* A data row and an audit row left by an earlier execution.
OldDataRow ==
  <<Str("03-11-2026"), Str("PHONE"), Str("https://a.com")>>
  \o [k \in 1..16 |-> Dash]

OldHistoryRow ==
  << Str("exec_1600000000000_1"), Str("03-11-2026 10:00:00"),
     Str("https://a.com"), Str("PHONE"), Str("SUCCESS"), Num(200), Dash,
     Str("YES") >>

\* The state after `new CruxExtractor(config)`: the configuration stored, no
\* stage run yet; the spreadsheet may or may not hold the two tabs already.
Init ==
  /\ urls \in SeqsUpTo(UrlPool, MaxUrls)
  /\ formFactor \in SeqsUpTo(FactorPool, MaxFactors)
  /\ Len(urls) * Len(formFactor) <= MaxPairs
  /\ requests = Undefined
  /\ filteredResponse = Undefined
  /\ executionRecords = Undefined
  /\ normalizedResponse = Undefined
  /\ dataSheet \in {Undefined, Arr(<<DataHeaders, OldDataRow>>)}
  /\ historySheet \in {Undefined, Arr(<<HistoryHeaders, OldHistoryRow>>)}
  /\ pc = "idle"
  /\ reqIndex = 0
  /\ response = Undefined
  /\ executionId = ""
  /\ thrown = ""
  /\ fetchReturn = "none"
  /\ summary = Undefined
  /\ leaving = ""
  /\ httpLog = <<>>
  /\ sleeps = 0
  /\ flushLog = <<>>
  /\ sheets0 = <<dataSheet, historySheet>>
  /\ executionFlag = FALSE
  /\ mainLog = <<>>
  /\ config = Undefined
  /\ self = TestSelf

(* ------------------------------- run ------------------------------------ *)

NoRequestsError == "No requests to fetch. Call buildRequestUrls() first."

NoSuccessError == "No successful API responses received"

\* Entry of run: the executionId is generated.
RunStart ==
  /\ pc = "idle"
  /\ \E id \in ExecIds : executionId' = id
  /\ pc' = "PLANNING"
  /\ UNCHANGED <<urls, formFactor, requests, filteredResponse, executionRecords,
                 normalizedResponse, dataSheet, historySheet, reqIndex, response,
                 thrown, fetchReturn, summary, leaving, httpLog, sleeps, flushLog,
                 sheets0, executionFlag, mainLog,
                 config, self>>

\* Step 1 with the data tab resolved (and created with its header when
\* absent) before the requests are built.
RunPlan_ResolvesDataTab ==
  /\ pc = "PLANNING"
  /\ dataSheet' = ResolveSheet(DataTab, dataSheet, DataHeaders, "none").sheet
  /\ LET b == buildRequestUrls(urls, formFactor) IN
       /\ requests' = b.requests
       /\ thrown' = b.error
       /\ pc' = IF b.error # "" THEN "CATCH" ELSE "FETCH_ENTRY"
  /\ UNCHANGED <<urls, formFactor, filteredResponse, executionRecords,
                 normalizedResponse, historySheet, reqIndex, response,
                 executionId, fetchReturn, summary, leaving, httpLog, sleeps,
                 flushLog,
                 sheets0, executionFlag, mainLog,
                 config, self>>

\* Step 1: buildRequestUrls.
RunPlan ==
  /\ pc = "PLANNING"
  /\ LET b == buildRequestUrls(urls, formFactor) IN
       /\ requests' = b.requests
       /\ thrown' = b.error
       /\ pc' = IF b.error # "" THEN "CATCH" ELSE "FETCH_ENTRY"
  /\ UNCHANGED <<urls, formFactor, filteredResponse, executionRecords,
                 normalizedResponse, dataSheet, historySheet, reqIndex, response,
                 executionId, fetchReturn, summary, leaving, httpLog, sleeps,
                 flushLog,
                 sheets0, executionFlag, mainLog,
                 config, self>>

\* Step 2, entry of fetchData: the sequence check, then both lists are reset.
FetchEntry ==
  /\ pc = "FETCH_ENTRY"
  /\ IF Falsy(requests) \/ Length(requests) = 0
       THEN /\ thrown' = NoRequestsError
            /\ fetchReturn' = "threw"
            /\ pc' = "CATCH"
            /\ UNCHANGED <<filteredResponse, executionRecords, reqIndex>>
       ELSE /\ filteredResponse' = Arr(<<>>)
            /\ executionRecords' = Arr(<<>>)
            /\ reqIndex' = 0
            /\ fetchReturn' = "none"
            /\ pc' = "FETCH_REQUEST"
            /\ UNCHANGED thrown
  /\ UNCHANGED <<urls, formFactor, requests, normalizedResponse, dataSheet,
                 historySheet, response, executionId, summary, leaving, httpLog,
                 sleeps, flushLog,
                 sheets0, executionFlag, mainLog,
                 config, self>>

\* One UrlFetchApp.fetch call: it blocks until the request has resolved.
FetchRequest ==
  /\ pc = "FETCH_REQUEST"
  /\ LET req == requests.arr[reqIndex + 1] IN
       /\ \E out \in HttpOutcomes(JSONParse(req.payload)) : response' = out
       /\ httpLog' = Append(httpLog, req.payload)
  /\ pc' = "FETCH_RECORD"
  /\ UNCHANGED <<urls, formFactor, requests, filteredResponse, executionRecords,
                 normalizedResponse, dataSheet, historySheet, reqIndex,
                 executionId, thrown, fetchReturn, summary, leaving, sleeps,
                 flushLog,
                 sheets0, executionFlag, mainLog,
                 config, self>>

\* The iteration with `continue` in the catch of a thrown fetch: no record
\* is pushed for it.
FetchRecord_NoRecordOnThrow ==
  /\ pc = "FETCH_RECORD"
  /\ LET req  == requests.arr[reqIndex + 1]
         body == JSONParse(req.payload)
         c    == Classify(response)
     IN  /\ filteredResponse' = IF c.push
                                  THEN Push(filteredResponse, JSONParse(response.text))
                                  ELSE filteredResponse
         /\ executionRecords' = IF response.threw
                                  THEN executionRecords
                                  ELSE Push(executionRecords, ExecutionRecord(body, c))
  /\ sleeps' = IF reqIndex < Length(requests) - 1 THEN sleeps + 1 ELSE sleeps
  /\ reqIndex' = reqIndex + 1
  /\ pc' = IF reqIndex + 1 < Length(requests) THEN "FETCH_REQUEST" ELSE "FETCH_RETURN"
  /\ response' = Undefined
  /\ UNCHANGED <<urls, formFactor, requests, normalizedResponse, dataSheet,
                 historySheet, executionId, thrown, fetchReturn, summary, leaving,
                 httpLog, flushLog, sheets0, executionFlag, mainLog,
                 config, self>>

\* The iteration sleeping after every request, the last one included.
FetchRecord_SleepAlways ==
  /\ pc = "FETCH_RECORD"
  /\ LET req  == requests.arr[reqIndex + 1]
         body == JSONParse(req.payload)
         c    == Classify(response)
     IN  /\ filteredResponse' = IF c.push
                                  THEN Push(filteredResponse, JSONParse(response.text))
                                  ELSE filteredResponse
         /\ executionRecords' = Push(executionRecords, ExecutionRecord(body, c))
  /\ sleeps' = sleeps + 1
  /\ reqIndex' = reqIndex + 1
  /\ pc' = IF reqIndex + 1 < Length(requests) THEN "FETCH_REQUEST" ELSE "FETCH_RETURN"
  /\ response' = Undefined
  /\ UNCHANGED <<urls, formFactor, requests, normalizedResponse, dataSheet,
                 historySheet, executionId, thrown, fetchReturn, summary, leaving,
                 httpLog, flushLog, sheets0, executionFlag, mainLog,
                 config, self>>

\* The rest of the iteration: classify, push the record, sleep unless last.
FetchRecord ==
  /\ pc = "FETCH_RECORD"
  /\ LET req  == requests.arr[reqIndex + 1]
         body == JSONParse(req.payload)
         c    == Classify(response)
     IN  /\ filteredResponse' = IF c.push
                                  THEN Push(filteredResponse, JSONParse(response.text))
                                  ELSE filteredResponse
         /\ executionRecords' = Push(executionRecords, ExecutionRecord(body, c))
  /\ sleeps' = IF reqIndex < Length(requests) - 1 THEN sleeps + 1 ELSE sleeps
  /\ reqIndex' = reqIndex + 1
  /\ pc' = IF reqIndex + 1 < Length(requests) THEN "FETCH_REQUEST" ELSE "FETCH_RETURN"
  /\ response' = Undefined
  /\ UNCHANGED <<urls, formFactor, requests, normalizedResponse, dataSheet,
                 historySheet, executionId, thrown, fetchReturn, summary, leaving,
                 httpLog, flushLog,
                 sheets0, executionFlag, mainLog,
                 config, self>>

\* fetchData returns this.filteredResponse.
FetchReturn ==
  /\ pc = "FETCH_RETURN"
  /\ fetchReturn' = "returned"
  /\ pc' = "FETCH_CHECK"
  /\ UNCHANGED <<urls, formFactor, requests, filteredResponse, executionRecords,
                 normalizedResponse, dataSheet, historySheet, reqIndex, response,
                 executionId, thrown, summary, leaving, httpLog, sleeps, flushLog,
                 sheets0, executionFlag, mainLog,
                 config, self>>

\* run going on to normalize whatever fetchData returned.
RunFetchCheck_NoCheck ==
  /\ pc = "FETCH_CHECK"
  /\ pc' = "NORMALIZING"
  /\ UNCHANGED <<urls, formFactor, requests, filteredResponse, executionRecords,
                 normalizedResponse, dataSheet, historySheet, reqIndex, response,
                 executionId, thrown, fetchReturn, summary, leaving, httpLog,
                 sleeps, flushLog, sheets0, executionFlag, mainLog,
                 config, self>>

\* run's check of what fetchData returned.
RunFetchCheck ==
  /\ pc = "FETCH_CHECK"
  /\ IF Falsy(filteredResponse) \/ Length(filteredResponse) = 0
       THEN thrown' = NoSuccessError /\ pc' = "CATCH"
       ELSE thrown' = thrown /\ pc' = "NORMALIZING"
  /\ UNCHANGED <<urls, formFactor, requests, filteredResponse, executionRecords,
                 normalizedResponse, dataSheet, historySheet, reqIndex, response,
                 executionId, fetchReturn, summary, leaving, httpLog, sleeps,
                 flushLog,
                 sheets0, executionFlag, mainLog,
                 config, self>>

\* Step 3: normalizeData.
RunNormalize ==
  /\ pc = "NORMALIZING"
  /\ \E timeStamp \in Dates :
       \E r \in {normalizeData(filteredResponse, executionRecords,
                               normalizedResponse, timeStamp)} :
         /\ normalizedResponse' = r.normalizedResponse
         /\ executionRecords' = r.executionRecords
         /\ thrown' = r.error
         /\ pc' = IF r.error # "" THEN "CATCH" ELSE "WRITING"
  /\ UNCHANGED <<urls, formFactor, requests, filteredResponse, dataSheet,
                 historySheet, reqIndex, response, executionId, fetchReturn,
                 summary, leaving, httpLog, sleeps, flushLog,
                 sheets0, executionFlag, mainLog,
                 config, self>>

\* Step 4 with a failed write logged and run carrying on to step 5.
RunWrite_ContinueOnError ==
  /\ pc = "WRITING"
  /\ \E fault \in SheetFaults :
       LET r == addToSpreadsheet(normalizedResponse, dataSheet, fault) IN
         /\ dataSheet' = r.sheet
         /\ thrown' = r.error
         /\ pc' = "LOGGING"
  /\ UNCHANGED <<urls, formFactor, requests, filteredResponse, executionRecords,
                 normalizedResponse, historySheet, reqIndex, response,
                 executionId, fetchReturn, summary, leaving, httpLog, sleeps,
                 flushLog,
                 sheets0, executionFlag, mainLog,
                 config, self>>

\* Step 4: addToSpreadsheet.
RunWrite ==
  /\ pc = "WRITING"
  /\ \E fault \in SheetFaults :
       LET r == addToSpreadsheet(normalizedResponse, dataSheet, fault) IN
         /\ dataSheet' = r.sheet
         /\ thrown' = r.error
         /\ pc' = IF r.error # "" THEN "CATCH" ELSE "LOGGING"
  /\ UNCHANGED <<urls, formFactor, requests, filteredResponse, executionRecords,
                 normalizedResponse, historySheet, reqIndex, response,
                 executionId, fetchReturn, summary, leaving, httpLog, sleeps,
                 flushLog,
                 sheets0, executionFlag, mainLog,
                 config, self>>

\* What a logExecutionHistory call did: where it was made, how many records
\* it was given, whether its try block failed, whether the call raised.
FlushEntry(at, records, failed, raised) ==
  [at |-> at,
   count |-> IF Falsy(records) THEN 0 ELSE Length(records),
   failed |-> failed,
   raised |-> raised]

\* Summary with failedRequests counted against the rows written.
Summary_FailedFromRows(id, reqs, responses, normalized) ==
  [executionId |-> id,
   totalRequests |-> Length(reqs),
   successfulResponses |-> Length(responses),
   rowsWritten |-> Length(normalized),
   failedRequests |-> Length(reqs) - Length(normalized)]

\* Summary with totalRequests taken from the responses.
Summary_TotalFromResponses(id, reqs, responses, normalized) ==
  [executionId |-> id,
   totalRequests |-> Length(responses),
   successfulResponses |-> Length(responses),
   rowsWritten |-> Length(normalized),
   failedRequests |-> Length(reqs) - Length(responses)]

\* The summary object run returns.
Summary(id, reqs, responses, normalized) ==
  [executionId |-> id,
   totalRequests |-> Length(reqs),
   successfulResponses |-> Length(responses),
   rowsWritten |-> Length(normalized),
   failedRequests |-> Length(reqs) - Length(responses)]

\* Step 5: logExecutionHistory, then the summary is returned.
RunLog ==
  /\ pc = "LOGGING"
  /\ \E fault \in SheetFaults, timestamp \in Timestamps :
       LET r == logExecutionHistory(executionId, executionRecords, timestamp,
                                    historySheet, fault)
           t == LogHistoryTry(executionId, executionRecords, timestamp,
                              historySheet, fault)
       IN  /\ historySheet' = r.sheet
           /\ flushLog' = Append(flushLog,
                FlushEntry("LOGGING", executionRecords, t.error # "", r.error # ""))
           /\ IF r.error # ""
                THEN thrown' = r.error /\ pc' = "CATCH" /\ summary' = summary
                ELSE /\ thrown' = thrown
                     /\ pc' = "DONE"
                     /\ summary' = Summary(executionId, requests,
                                            filteredResponse, normalizedResponse)
  /\ UNCHANGED <<urls, formFactor, requests, filteredResponse, executionRecords,
                 normalizedResponse, dataSheet, reqIndex, response, executionId,
                 fetchReturn, leaving, httpLog, sleeps,
                 sheets0, executionFlag, mainLog,
                 config, self>>

\* The catch block rethrowing at once, without the flush.
RunCatch_NoFlush ==
  /\ pc = "CATCH"
  /\ leaving' = thrown
  /\ pc' = "FAILED"
  /\ UNCHANGED <<urls, formFactor, requests, filteredResponse, executionRecords,
                 normalizedResponse, dataSheet, historySheet, reqIndex, response,
                 executionId, thrown, fetchReturn, summary, httpLog, sleeps,
                 flushLog, sheets0, executionFlag, mainLog,
                 config, self>>

\* The catch block of run: flush whatever records exist (an error of the flush
\* is caught and logged), then rethrow the caught error.
RunCatch ==
  /\ pc = "CATCH"
  /\ IF ~Falsy(executionRecords) /\ Length(executionRecords) > 0
       THEN \E fault \in SheetFaults, timestamp \in Timestamps :
              LET r == logExecutionHistory(executionId, executionRecords,
                                           timestamp, historySheet, fault)
                  t == LogHistoryTry(executionId, executionRecords, timestamp,
                                     historySheet, fault)
              IN  /\ historySheet' = r.sheet
                  /\ flushLog' = Append(flushLog,
                       FlushEntry("CATCH", executionRecords, t.error # "",
                                  r.error # ""))
       ELSE UNCHANGED <<historySheet, flushLog>>
  /\ leaving' = thrown
  /\ pc' = "FAILED"
  /\ UNCHANGED <<urls, formFactor, requests, filteredResponse, executionRecords,
                 normalizedResponse, dataSheet, reqIndex, response, executionId,
                 thrown, fetchReturn, summary, httpLog, sleeps,
                 sheets0, executionFlag, mainLog,
                 config, self>>

Next ==
  \/ RunStart
  \/ RunPlan
  \/ FetchEntry
  \/ FetchRequest
  \/ FetchRecord
  \/ FetchReturn
  \/ RunFetchCheck
  \/ RunNormalize
  \/ RunWrite
  \/ RunLog
  \/ RunCatch

Spec == Init /\ [][Next]_vars

(* ---------------- the planner alone, on every configuration ------------- *)

\* A fresh instance over any url list and form factor list of the pools.
PlanInit ==
  /\ urls \in SeqsUpTo(UrlPool, MaxUrls)
  /\ formFactor \in SeqsUpTo(FactorPool, MaxFactors)
  /\ requests = Undefined
  /\ filteredResponse = Undefined
  /\ executionRecords = Undefined
  /\ normalizedResponse = Undefined
  /\ dataSheet = Undefined
  /\ historySheet = Undefined
  /\ pc = "idle"
  /\ reqIndex = 0
  /\ response = Undefined
  /\ executionId = ""
  /\ thrown = ""
  /\ fetchReturn = "none"
  /\ summary = Undefined
  /\ leaving = ""
  /\ httpLog = <<>>
  /\ sleeps = 0
  /\ flushLog = <<>>
  /\ sheets0 = <<dataSheet, historySheet>>
  /\ executionFlag = FALSE
  /\ mainLog = <<>>
  /\ config = Undefined
  /\ self = TestSelf

\* A direct call of buildRequestUrls; thrown is the error it raised.
CallBuildRequestUrls ==
  /\ pc = "idle"
  /\ LET b == buildRequestUrls(urls, formFactor) IN
       /\ requests' = b.requests
       /\ thrown' = b.error
  /\ UNCHANGED <<urls, formFactor, filteredResponse, executionRecords,
                 normalizedResponse, dataSheet, historySheet, pc, reqIndex,
                 response, executionId, fetchReturn, summary, leaving, httpLog,
                 sleeps, flushLog, sheets0, executionFlag, mainLog,
                 config, self>>

PlanNext == CallBuildRequestUrls

SpecPlan == PlanInit /\ [][PlanNext]_vars

(* --------------- the normalizer alone, on every payload shape ----------- *)

\* Longest histogram array of a payload.
MaxBuckets == 3

\* A bucket with a density, a bucket of density 0, a bucket without density.
BucketPool == {[density |-> Num(70)], [density |-> Num(0)], [start |-> Num(0)]}

HistogramPool ==
  {Undefined} \cup {Arr(q) : q \in UNION {[1..k -> BucketPool] : k \in 0..MaxBuckets}}

PercentilesPool == {Undefined, [p50 |-> Num(1200)], [p75 |-> Num(2500)]}

\* Every shape of one metric: absent, null, or an object whose histogram
\* and percentiles are each absent or present in any of the shapes above.
MetricPool ==
  {Undefined, Null}
  \cup {[histogram |-> h, percentiles |-> p] : h \in HistogramPool, p \in PercentilesPool}

SmallMetricPool == {Undefined, FullMetric(65, 25, 10, 1800)}

\* metrics objects: one metric ranges over every shape, the other three over
\* absent / fully populated.
MetricsPool ==
  { [largest_contentful_paint |-> IF w = 1 THEN m ELSE small[1],
     first_input_delay        |-> IF w = 2 THEN m ELSE small[2],
     cumulative_layout_shift  |-> IF w = 3 THEN m ELSE small[3],
     first_contentful_paint   |-> IF w = 4 THEN m ELSE small[4]] :
      w \in 1..4, m \in MetricPool, small \in [1..4 -> SmallMetricPool] }

\* record.key objects: complete, without formFactor, without url.
KeyPool ==
  { [url |-> Str("https://a.com"), formFactor |-> Str("PHONE")],
    [url |-> Str("https://a.com")],
    [formFactor |-> Str("PHONE")] }

\* Parsed 200 bodies: null, an object without record, a record without
\* metrics or without key, and every record with a key and metrics.
NormPayloads ==
  { Null, [invalid |-> Str("structure")] }
  \cup { [record |-> [key |-> k]] : k \in KeyPool }
  \cup { [record |-> [metrics |-> FullMetrics]] }
  \cup { [record |-> [key |-> k, metrics |-> m]] : k \in KeyPool, m \in MetricsPool }

\* The instance after fetchData returned from one request that was answered
\* 200 with a body of NormPayloads.
NormInit ==
  /\ urls = <<"https://a.com">>
  /\ formFactor = <<"PHONE">>
  /\ requests = buildRequestUrls(urls, formFactor).requests
  /\ \E p \in NormPayloads : filteredResponse = Arr(<<p>>)
  /\ executionRecords =
       Arr(<<ExecutionRecord(JSONParse(requests.arr[1].payload),
                             [status |-> "SUCCESS", responseCode |-> Num(HTTP_STATUS_OK),
                              errorMessage |-> Dash, push |-> TRUE])>>)
  /\ normalizedResponse = Undefined
  /\ dataSheet = Undefined
  /\ historySheet = Undefined
  /\ pc = "idle"
  /\ reqIndex = 1
  /\ response = Undefined
  /\ executionId = ""
  /\ thrown = ""
  /\ fetchReturn = "returned"
  /\ summary = Undefined
  /\ leaving = ""
  /\ httpLog = <<requests.arr[1].payload>>
  /\ sleeps = 0
  /\ flushLog = <<>>
  /\ sheets0 = <<dataSheet, historySheet>>
  /\ executionFlag = FALSE
  /\ mainLog = <<>>
  /\ config = Undefined
  /\ self = TestSelf

\* A direct call of normalizeData; thrown is the error it raised.
CallNormalizeData ==
  /\ pc = "idle"
  /\ \E timeStamp \in Dates :
       LET r == normalizeData(filteredResponse, executionRecords,
                              normalizedResponse, timeStamp) IN
         /\ normalizedResponse' = r.normalizedResponse
         /\ executionRecords' = r.executionRecords
         /\ thrown' = r.error
  /\ UNCHANGED <<urls, formFactor, requests, filteredResponse, dataSheet,
                 historySheet, pc, reqIndex, response, executionId, fetchReturn,
                 summary, leaving, httpLog, sleeps, flushLog, sheets0, executionFlag, mainLog,
                 config, self>>

NormNext == CallNormalizeData

SpecNorm == NormInit /\ [][NormNext]_vars

(* ------------- the stages called directly, in any order ----------------- *)

\* Most HTTP requests one instance issues over its direct fetchData calls.
MaxIssued == 2

\* Most populated rows of a tab.
MaxRows == 6

\* The loop of fetchData over this.requests from index k, the outcome of
\* request k being outs[k].
RECURSIVE FetchLoop(_, _, _, _, _)
FetchLoop(reqs, outs, k, fr, er) ==
  IF k > Len(reqs) THEN [filteredResponse |-> fr, executionRecords |-> er]
  ELSE LET body == JSONParse(reqs[k].payload)
           c    == Classify(outs[k])
       IN  FetchLoop(reqs, outs, k + 1,
                     IF c.push THEN Append(fr, JSONParse(outs[k].text)) ELSE fr,
                     Append(er, ExecutionRecord(body, c)))

\* fetchData resetting both lists before the check of this.requests.
fetchData_ResetFirst(reqs, fr, er, outs) ==
  IF Falsy(reqs) \/ Length(reqs) = 0
    THEN [filteredResponse |-> Arr(<<>>), executionRecords |-> Arr(<<>>),
          error |-> NoRequestsError, issued |-> <<>>, sleeps |-> 0]
  ELSE LET r == FetchLoop(reqs.arr, outs, 1, <<>>, <<>>) IN
         [filteredResponse |-> Arr(r.filteredResponse),
          executionRecords |-> Arr(r.executionRecords),
          error |-> "",
          issued |-> [k \in 1..Length(reqs) |-> reqs.arr[k].payload],
          sleeps |-> Length(reqs) - 1]

\* fetchData as one call: the values it leaves in this.filteredResponse and
\* this.executionRecords, the error it throws ("" when it returns), the
\* payloads it handed to UrlFetchApp.fetch and the number of sleeps.
fetchData(reqs, fr, er, outs) ==
  IF Falsy(reqs) \/ Length(reqs) = 0
    THEN [filteredResponse |-> fr, executionRecords |-> er,
          error |-> NoRequestsError, issued |-> <<>>, sleeps |-> 0]
  ELSE LET r == FetchLoop(reqs.arr, outs, 1, <<>>, <<>>) IN
         [filteredResponse |-> Arr(r.filteredResponse),
          executionRecords |-> Arr(r.executionRecords),
          error |-> "",
          issued |-> [k \in 1..Length(reqs) |-> reqs.arr[k].payload],
          sleeps |-> Length(reqs) - 1]

\* The outcomes of the requests k.. of one fetchData call, one per descriptor.
RECURSIVE OutcomesFrom(_, _)
OutcomesFrom(reqs, k) ==
  IF k > Len(reqs) THEN {<<>>}
  ELSE { <<out>> \o rest : out \in HttpOutcomes(JSONParse(reqs[k].payload)),
                           rest \in OutcomesFrom(reqs, k + 1) }

OutcomeLists(reqs) ==
  IF Falsy(reqs) THEN {<<>>} ELSE OutcomesFrom(reqs.arr, 1)

\* A fresh instance over any url list of the pool and one form factor; the
\* data tab absent or holding the rows of an earlier execution.
StagesInit ==
  /\ urls \in SeqsUpTo(UrlPool, MaxUrls)
  /\ Len(urls) <= MaxIssued
  /\ formFactor = <<"PHONE">>
  /\ requests = Undefined
  /\ filteredResponse = Undefined
  /\ executionRecords = Undefined
  /\ normalizedResponse = Undefined
  /\ dataSheet \in {Undefined, Arr(<<DataHeaders, OldDataRow>>)}
  /\ historySheet = Undefined
  /\ pc = "idle"
  /\ reqIndex = 0
  /\ response = Undefined
  /\ executionId = ""
  /\ thrown = ""
  /\ fetchReturn = "none"
  /\ summary = Undefined
  /\ leaving = ""
  /\ httpLog = <<>>
  /\ sleeps = 0
  /\ flushLog = <<>>
  /\ sheets0 = <<dataSheet, historySheet>>
  /\ executionFlag = FALSE
  /\ mainLog = <<>>
  /\ config = Undefined
  /\ self = TestSelf

\* A direct call of fetchData; thrown is the error it raised.
CallFetchData ==
  /\ pc = "idle"
  /\ Len(httpLog) + (IF Falsy(requests) THEN 0 ELSE Length(requests)) <= MaxIssued
  /\ \E outs \in OutcomeLists(requests) :
       LET r == fetchData(requests, filteredResponse, executionRecords, outs) IN
         /\ filteredResponse' = r.filteredResponse
         /\ executionRecords' = r.executionRecords
         /\ thrown' = r.error
         /\ fetchReturn' = IF r.error # "" THEN "threw" ELSE "returned"
         /\ httpLog' = httpLog \o r.issued
         /\ sleeps' = sleeps + r.sleeps
  /\ UNCHANGED <<urls, formFactor, requests, normalizedResponse, dataSheet,
                 historySheet, pc, reqIndex, response, executionId, summary,
                 leaving, flushLog, sheets0, executionFlag, mainLog,
                 config, self>>

\* A direct call of addToSpreadsheet; thrown is the error it raised.
CallAddToSpreadsheet ==
  /\ pc = "idle"
  /\ (IF Falsy(dataSheet) THEN 1 ELSE GetLastRow(dataSheet))
       + (IF Falsy(normalizedResponse) THEN 0 ELSE Length(normalizedResponse))
       <= MaxRows
  /\ \E fault \in SheetFaults :
       LET r == addToSpreadsheet(normalizedResponse, dataSheet, fault) IN
         /\ dataSheet' = r.sheet
         /\ thrown' = r.error
  /\ UNCHANGED <<urls, formFactor, requests, filteredResponse, executionRecords,
                 normalizedResponse, historySheet, pc, reqIndex, response,
                 executionId, fetchReturn, summary, leaving, httpLog, sleeps,
                 flushLog, sheets0, executionFlag, mainLog,
                 config, self>>

StagesNext ==
  \/ CallBuildRequestUrls
  \/ CallFetchData
  \/ CallNormalizeData
  \/ CallAddToSpreadsheet

SpecStages == StagesInit /\ [][StagesNext]_vars

(* ------------- logExecutionHistory called directly ---------------------- *)

\* Most logExecutionHistory calls made on one instance.
MaxFlushes == 2

\* executionIds a caller passes: run's, and the one of the unit tests.
AuditIds == ExecIds \cup {"exec_123456_789"}

\* A record of a failed request, as fetchData pushes it.
FailedRecord ==
  [url |-> Str("http://b.org"), formFactor |-> Str("PHONE"),
   status |-> Str("FAILED"), responseCode |-> Num(500),
   errorMessage |-> Str("Non-200 response: Server Error"),
   normalized |-> Str("NO")]

\* Records a caller passes: complete ones, one with only url, formFactor and
\* status, one with only url, and one whose responseCode is 0 and whose
\* errorMessage is the empty string.
RecordPool ==
  { [url |-> Str("https://a.com"), formFactor |-> Str("PHONE"),
     status |-> Str("SUCCESS"), responseCode |-> Num(HTTP_STATUS_OK),
     errorMessage |-> Dash, normalized |-> Str("YES")],
    FailedRecord,
    [url |-> Str("https://a.com"), formFactor |-> Str("PHONE"),
     status |-> Str("SUCCESS")],
    [url |-> Str("https://a.com")],
    [url |-> Str("https://a.com"), formFactor |-> Str("PHONE"),
     status |-> Str("FAILED"), responseCode |-> Num(0),
     errorMessage |-> Str(""), normalized |-> Str("NO")] }

\* The `records` arguments: undefined, the empty array, and arrays of
\* 1..MaxPairs records.
RecordLists ==
  {Undefined, Arr(<<>>)}
  \cup { Arr(<<r>> \o [k \in 1..(n - 1) |-> FailedRecord]) :
           r \in RecordPool, n \in 1..MaxPairs }

\* What a direct logExecutionHistory call was given and did: its arguments,
\* the timestamp it computed, the tab as it found it, the row it started
\* writing at, whether its try block failed, whether the call raised.
FlushCall(id, records, timestamp, sheet, fault) ==
  LET t   == LogHistoryTry(id, records, timestamp, sheet, fault)
      r   == logExecutionHistory(id, records, timestamp, sheet, fault)
      got == getExecutionHistorySheet(sheet, fault)
  IN  [at |-> "direct",
       count |-> IF Falsy(records) THEN 0 ELSE Length(records),
       failed |-> t.error # "",
       raised |-> r.error # "",
       id |-> id,
       timestamp |-> timestamp,
       records |-> records,
       found |-> sheet,
       startRow |-> IF got.error = "" THEN GetLastRow(got.sheet) + 1 ELSE 0]

\* A fresh instance; the executionHistory tab absent or holding the rows of
\* an earlier execution.
AuditInit ==
  /\ urls = <<"https://a.com">>
  /\ formFactor = <<"PHONE">>
  /\ requests = Undefined
  /\ filteredResponse = Undefined
  /\ executionRecords = Undefined
  /\ normalizedResponse = Undefined
  /\ dataSheet = Undefined
  /\ historySheet \in {Undefined, Arr(<<HistoryHeaders, OldHistoryRow>>)}
  /\ pc = "idle"
  /\ reqIndex = 0
  /\ response = Undefined
  /\ executionId = ""
  /\ thrown = ""
  /\ fetchReturn = "none"
  /\ summary = Undefined
  /\ leaving = ""
  /\ httpLog = <<>>
  /\ sleeps = 0
  /\ flushLog = <<>>
  /\ sheets0 = <<dataSheet, historySheet>>
  /\ executionFlag = FALSE
  /\ mainLog = <<>>
  /\ config = Undefined
  /\ self = TestSelf

\* A direct call of logExecutionHistory(executionId, records).
CallLogExecutionHistory ==
  /\ pc = "idle"
  /\ Len(flushLog) < MaxFlushes
  /\ \E id \in AuditIds, records \in RecordLists, timestamp \in Timestamps,
        fault \in SheetFaults :
       LET r == logExecutionHistory(id, records, timestamp, historySheet, fault) IN
         /\ historySheet' = r.sheet
         /\ thrown' = r.error
         /\ flushLog' = Append(flushLog,
                               FlushCall(id, records, timestamp, historySheet, fault))
  /\ UNCHANGED <<urls, formFactor, requests, filteredResponse, executionRecords,
                 normalizedResponse, dataSheet, pc, reqIndex, response,
                 executionId, fetchReturn, summary, leaving, httpLog, sleeps,
                 sheets0, executionFlag, mainLog,
                 config, self>>

AuditNext == CallLogExecutionHistory

SpecAudit == AuditInit /\ [][AuditNext]_vars

(* ----------------------------- main ------------------------------------- *)

\* Most invocations of main within one process lifetime.
MaxMains == 3

ConfigError ==
  "Configuration error: 'urls' array is empty. Please add URLs to process."

\* main never setting executionFlag.
MainEntry_NoFlag(configured) ==
  /\ Len(mainLog) < MaxMains
  /\ IF executionFlag
       THEN /\ mainLog' = Append(mainLog, [did |-> "duplicate", loaded |-> FALSE])
            /\ UNCHANGED <<requests, filteredResponse, executionRecords,
                           normalizedResponse, pc, reqIndex, response,
                           executionId, thrown, fetchReturn, summary, leaving>>
       ELSE /\ mainLog' = Append(mainLog,
                 [did |-> IF configured THEN "started" ELSE "raised", loaded |-> TRUE])
            /\ requests' = Undefined
            /\ filteredResponse' = Undefined
            /\ executionRecords' = Undefined
            /\ normalizedResponse' = Undefined
            /\ pc' = IF configured THEN "idle" ELSE "FAILED"
            /\ reqIndex' = 0
            /\ response' = Undefined
            /\ executionId' = ""
            /\ thrown' = IF configured THEN "" ELSE ConfigError
            /\ fetchReturn' = "none"
            /\ summary' = Undefined
            /\ leaving' = IF configured THEN "" ELSE ConfigError
  /\ UNCHANGED <<urls, formFactor, dataSheet, historySheet, httpLog, sleeps,
                 flushLog, sheets0, executionFlag, config, self>>

\* An invocation of main up to its first await: the duplicate check, the
\* flag, the configuration checks and the construction of the extractor.
\* With the flag set it returns at once; otherwise it sets the flag, loads
\* the configuration (raising when it is not filled in) and constructs the
\* extractor whose run is awaited next.
MainEntry(configured) ==
  /\ Len(mainLog) < MaxMains
  /\ IF executionFlag
       THEN /\ mainLog' = Append(mainLog, [did |-> "duplicate", loaded |-> FALSE])
            /\ UNCHANGED <<requests, filteredResponse, executionRecords,
                           normalizedResponse, pc, reqIndex, response,
                           executionId, thrown, fetchReturn, summary, leaving,
                           executionFlag>>
       ELSE /\ executionFlag' = TRUE
            /\ mainLog' = Append(mainLog,
                 [did |-> IF configured THEN "started" ELSE "raised", loaded |-> TRUE])
            /\ requests' = Undefined
            /\ filteredResponse' = Undefined
            /\ executionRecords' = Undefined
            /\ normalizedResponse' = Undefined
            /\ pc' = IF configured THEN "idle" ELSE "FAILED"
            /\ reqIndex' = 0
            /\ response' = Undefined
            /\ executionId' = ""
            /\ thrown' = IF configured THEN "" ELSE ConfigError
            /\ fetchReturn' = "none"
            /\ summary' = Undefined
            /\ leaving' = IF configured THEN "" ELSE ConfigError
  /\ UNCHANGED <<urls, formFactor, dataSheet, historySheet, httpLog, sleeps,
                 flushLog, sheets0, config, self>>

\* The trigger fires main.
Main == \E configured \in BOOLEAN : MainEntry(configured)

\* The run awaited by the invocation of main that constructed the extractor.
MainRun ==
  /\ \E k \in DOMAIN mainLog : mainLog[k].did = "started"
  /\ Next

\* Before the first invocation of main: the configuration to be loaded is
\* one url and one form factor; each tab is absent or left by an earlier
\* execution.
MainInit ==
  /\ urls \in {<<"https://a.com">>, <<"invalid-url">>}
  /\ formFactor = <<"PHONE">>
  /\ requests = Undefined
  /\ filteredResponse = Undefined
  /\ executionRecords = Undefined
  /\ normalizedResponse = Undefined
  /\ dataSheet \in {Undefined, Arr(<<DataHeaders, OldDataRow>>)}
  /\ historySheet \in {Undefined, Arr(<<HistoryHeaders, OldHistoryRow>>)}
  /\ pc = "idle"
  /\ reqIndex = 0
  /\ response = Undefined
  /\ executionId = ""
  /\ thrown = ""
  /\ fetchReturn = "none"
  /\ summary = Undefined
  /\ leaving = ""
  /\ httpLog = <<>>
  /\ sleeps = 0
  /\ flushLog = <<>>
  /\ sheets0 = <<dataSheet, historySheet>>
  /\ executionFlag = FALSE
  /\ mainLog = <<>>
  /\ config = Undefined
  /\ self = TestSelf

MainNext ==
  \/ Main
  \/ MainRun

SpecMain == MainInit /\ [][MainNext]_vars

(* --------------------------- the constructor ---------------------------- *)

\* Longest urls or formFactor array of a configuration object.
MaxConfigLen == 2

\* String.prototype.trim on the strings that occur in configurations.
Trim(s) ==
  CASE s = "  https://a.com  "  -> "https://a.com"
    [] s = " http://b.org"      -> "http://b.org"
    [] s = "   "                -> ""
    [] s = " "                  -> ""
    [] s = " PHONE "            -> "PHONE"
    [] s = "  test-sheet-id  "  -> "test-sheet-id"
    [] s = "  test-api-key  "   -> "test-api-key"
    [] OTHER                    -> s

\* typeof v === "string" && v.trim()
NonEmptyString(v) == "str" \in DOMAIN v /\ Trim(v.str) # ""

\* Array.isArray(v)
IsArray(v) == "arr" \in DOMAIN v

\* A destructured parameter with a default: the default replaces undefined only.
DefaultTo(v, default) == IF v = Undefined THEN default ELSE v

\* The constructor accepting blank url strings.
constructor_BlankUrlsAccepted(cfg) ==
  LET us  == DefaultTo(Get(cfg, "urls"), Arr(<<>>))
      sid == DefaultTo(Get(cfg, "spreadsheetId"), Str(""))
      key == DefaultTo(Get(cfg, "apiKey"), Str(""))
      ffs == DefaultTo(Get(cfg, "formFactor"),
                       Arr(<<Str("PHONE"), Str("DESKTOP"), Str("ALL_FORM_FACTORS")>>))
      tab == DefaultTo(Get(cfg, "sheetTabName"), Str("cruxData"))
      none == [urls |-> <<>>, formFactor |-> <<>>, self |-> Undefined]
  IN  IF ~IsArray(us) \/ Length(us) = 0
        THEN [error |-> "Crux Extractor: 'urls' must be a non-empty array", this |-> none]
      ELSE IF ~\A k \in 1..Length(us) : "str" \in DOMAIN us.arr[k]
        THEN [error |-> "Crux Extractor: All URLs must be non-empty strings", this |-> none]
      ELSE IF ~NonEmptyString(sid)
        THEN [error |-> "Crux Extractor: 'spreadsheetId' must be a non-empty string",
              this |-> none]
      ELSE IF ~NonEmptyString(key)
        THEN [error |-> "Crux Extractor: 'apiKey' must be a non-empty string", this |-> none]
      ELSE IF ~IsArray(ffs) \/ Length(ffs) = 0
        THEN [error |-> "Crux Extractor: 'formFactor' must be a non-empty array",
              this |-> none]
      ELSE IF ~\A k \in 1..Length(ffs) : NonEmptyString(ffs.arr[k])
        THEN [error |-> "Crux Extractor: All form factors must be non-empty strings",
              this |-> none]
      ELSE [error |-> "",
            this |-> [urls |-> [k \in 1..Length(us) |-> Trim(us.arr[k].str)],
                      formFactor |-> [k \in 1..Length(ffs) |-> Trim(ffs.arr[k].str)],
                      self |-> [spreadsheetId |-> Trim(sid.str),
                                apiKey |-> Trim(key.str),
                                cruxUrl |->
                                  "https://chromeuxreport.googleapis.com/v1/records:queryRecord?alt=json&key="
                                  \o Trim(key.str),
                                sheetTabName |-> tab.str]]]

\* new CruxExtractor(cfg): the error thrown ("" when none) and the fields
\* stored on the new instance.
constructor(cfg) ==
  LET us  == DefaultTo(Get(cfg, "urls"), Arr(<<>>))
      sid == DefaultTo(Get(cfg, "spreadsheetId"), Str(""))
      key == DefaultTo(Get(cfg, "apiKey"), Str(""))
      ffs == DefaultTo(Get(cfg, "formFactor"),
                       Arr(<<Str("PHONE"), Str("DESKTOP"), Str("ALL_FORM_FACTORS")>>))
      tab == DefaultTo(Get(cfg, "sheetTabName"), Str("cruxData"))
      none == [urls |-> <<>>, formFactor |-> <<>>, self |-> Undefined]
  IN  IF ~IsArray(us) \/ Length(us) = 0
        THEN [error |-> "Crux Extractor: 'urls' must be a non-empty array", this |-> none]
      ELSE IF ~\A k \in 1..Length(us) : NonEmptyString(us.arr[k])
        THEN [error |-> "Crux Extractor: All URLs must be non-empty strings", this |-> none]
      ELSE IF ~NonEmptyString(sid)
        THEN [error |-> "Crux Extractor: 'spreadsheetId' must be a non-empty string",
              this |-> none]
      ELSE IF ~NonEmptyString(key)
        THEN [error |-> "Crux Extractor: 'apiKey' must be a non-empty string", this |-> none]
      ELSE IF ~IsArray(ffs) \/ Length(ffs) = 0
        THEN [error |-> "Crux Extractor: 'formFactor' must be a non-empty array",
              this |-> none]
      ELSE IF ~\A k \in 1..Length(ffs) : NonEmptyString(ffs.arr[k])
        THEN [error |-> "Crux Extractor: All form factors must be non-empty strings",
              this |-> none]
      ELSE [error |-> "",
            this |-> [urls |-> [k \in 1..Length(us) |-> Trim(us.arr[k].str)],
                      formFactor |-> [k \in 1..Length(ffs) |-> Trim(ffs.arr[k].str)],
                      self |-> [spreadsheetId |-> Trim(sid.str),
                                apiKey |-> Trim(key.str),
                                cruxUrl |->
                                  "https://chromeuxreport.googleapis.com/v1/records:queryRecord?alt=json&key="
                                  \o Trim(key.str),
                                sheetTabName |-> tab.str]]]

\* Entries of a urls array: a url, a url with surrounding whitespace, a
\* blank string, a number.
UrlEntryPool ==
  {Str("https://a.com"), Str("  https://a.com  "), Str("   "), Num(123)}

\* Entries of a formFactor array: a padded token, an empty string, null.
FactorEntryPool == {Str(" PHONE "), Str(""), Null}

\* A list parameter: absent, null, a string, or an array of 0..MaxConfigLen entries.
ListValues(entries, stray) ==
  {Undefined, Null, stray}
  \cup { Arr(q) : q \in UNION {[1..n -> entries] : n \in 0..MaxConfigLen} }

SpreadsheetIdPool ==
  {Undefined, Str(""), Str("  test-sheet-id  "), Num(123)}

ApiKeyPool == {Undefined, Str(" "), Str("  test-api-key  "), Str("test-api-key")}

\* The configuration objects handed to the constructor.
ConfigPool ==
  { [urls |-> us, spreadsheetId |-> sid, apiKey |-> key, formFactor |-> ffs,
     sheetTabName |-> tab] :
      us \in ListValues(UrlEntryPool, Str("not-an-array")),
      sid \in SpreadsheetIdPool,
      key \in ApiKeyPool,
      ffs \in ListValues(FactorEntryPool, Str("PHONE")),
      tab \in {Undefined, Str("customTab")} }

\* Before `new CruxExtractor(config)`: no instance yet.
CtorInit ==
  /\ config \in ConfigPool
  /\ self = Undefined
  /\ urls = <<>>
  /\ formFactor = <<>>
  /\ requests = Undefined
  /\ filteredResponse = Undefined
  /\ executionRecords = Undefined
  /\ normalizedResponse = Undefined
  /\ dataSheet = Undefined
  /\ historySheet = Undefined
  /\ pc = "new"
  /\ reqIndex = 0
  /\ response = Undefined
  /\ executionId = ""
  /\ thrown = ""
  /\ fetchReturn = "none"
  /\ summary = Undefined
  /\ leaving = ""
  /\ httpLog = <<>>
  /\ sleeps = 0
  /\ flushLog = <<>>
  /\ sheets0 = <<dataSheet, historySheet>>
  /\ executionFlag = FALSE
  /\ mainLog = <<>>

\* `new CruxExtractor(config)`; thrown is the error it raised.
New ==
  /\ pc = "new"
  /\ LET c == constructor(config) IN
       /\ thrown' = c.error
       /\ urls' = c.this.urls
       /\ formFactor' = c.this.formFactor
       /\ self' = c.this.self
       /\ pc' = IF c.error = "" THEN "idle" ELSE "threw"
  /\ UNCHANGED <<requests, filteredResponse, executionRecords,
                 normalizedResponse, dataSheet, historySheet, reqIndex, response,
                 executionId, fetchReturn, summary, leaving, httpLog, sleeps,
                 flushLog, sheets0, executionFlag, mainLog, config>>

CtorNext == New

SpecCtor == CtorInit /\ [][CtorNext]_vars

(* ------------------- construction followed by run ----------------------- *)

\* The url lists and form factor lists an instance is constructed from.
RunConfigs ==
  { [urls |-> Arr([k \in DOMAIN us |-> Str(us[k])]),
     spreadsheetId |-> Str("test-sheet-id"),
     apiKey |-> Str("test-api-key"),
     formFactor |-> Arr([k \in DOMAIN ffs |-> Str(ffs[k])])] :
      us \in SeqsUpTo(UrlPool, MaxUrls), ffs \in SeqsUpTo(FactorPool, MaxFactors) }

\* No instance yet; each tab absent or holding the rows of an earlier
\* execution.
LifeInit ==
  /\ config = Undefined
  /\ self = Undefined
  /\ urls = <<>>
  /\ formFactor = <<>>
  /\ requests = Undefined
  /\ filteredResponse = Undefined
  /\ executionRecords = Undefined
  /\ normalizedResponse = Undefined
  /\ dataSheet \in {Undefined, Arr(<<DataHeaders, OldDataRow>>)}
  /\ historySheet \in {Undefined, Arr(<<HistoryHeaders, OldHistoryRow>>)}
  /\ pc = "new"
  /\ reqIndex = 0
  /\ response = Undefined
  /\ executionId = ""
  /\ thrown = ""
  /\ fetchReturn = "none"
  /\ summary = Undefined
  /\ leaving = ""
  /\ httpLog = <<>>
  /\ sleeps = 0
  /\ flushLog = <<>>
  /\ sheets0 = <<dataSheet, historySheet>>
  /\ executionFlag = FALSE
  /\ mainLog = <<>>

\* `new CruxExtractor(c)` for one of the configurations.
Construct ==
  /\ pc = "new"
  /\ \E c \in RunConfigs :
       /\ Length(c.urls) * Length(c.formFactor) <= MaxPairs
       /\ config' = c
       /\ LET made == constructor(c) IN
            /\ thrown' = made.error
            /\ urls' = made.this.urls
            /\ formFactor' = made.this.formFactor
            /\ self' = made.this.self
            /\ pc' = IF made.error = "" THEN "idle" ELSE "threw"
  /\ UNCHANGED <<requests, filteredResponse, executionRecords,
                 normalizedResponse, dataSheet, historySheet, reqIndex, response,
                 executionId, fetchReturn, summary, leaving, httpLog, sleeps,
                 flushLog, sheets0, executionFlag, mainLog>>

LifeNext == Construct \/ Next

\* The script is one sequential thread: every step it has reached is
\* eventually taken (UrlFetchApp.fetch and Utilities.sleep return).
FairSpec == LifeInit /\ [][LifeNext]_vars /\ WF_vars(LifeNext)

(* ============================== claims ================================== *)

\* What the claims call a valid url and an accepted form factor, on the
\* pools: the absolute urls of scheme http or https, and the three tokens.
HttpUrls == {"https://a.com", "http://b.org"}

AcceptedFactors == {"PHONE", "DESKTOP", "ALL_FORM_FACTORS"}

ValidUrls(us) == SelectSeq(us, LAMBDA u : u \in HttpUrls)

ValidFactors(fs) == SelectSeq(fs, LAMBDA f : f \in AcceptedFactors)

\* The {url, formFactor} bodies of a list of request descriptors.
Bodies(reqs) == [k \in 1..Length(reqs) |-> JSONParse(reqs.arr[k].payload)]

\* The pair a descriptor is expected to carry.
Pair(u, f) == [url |-> Str(u), formFactor |-> Str(f)]

C2_SummaryOrdering ==
  summary # Undefined =>
    /\ summary.rowsWritten <= summary.successfulResponses
    /\ summary.successfulResponses <= summary.totalRequests
    /\ summary.failedRequests = summary.totalRequests - summary.successfulResponses

\* A summary of a run in which one fetched payload could not be normalized.
C2_Witness ==
  /\ summary # Undefined
  /\ summary.rowsWritten < summary.successfulResponses

\* The accepted positions of the configured cross-product.
AcceptedPositions ==
  { ij \in (DOMAIN urls) \X (DOMAIN formFactor) :
      urls[ij[1]] \in HttpUrls /\ formFactor[ij[2]] \in AcceptedFactors }

\* C3 as stated: every accepted pair has exactly one descriptor after
\* buildRequestUrls and exactly one record after fetchData, also when an
\* entry of the lists is repeated: no pair twice, none dropped.
C3_Original ==
  /\ ~Falsy(requests) =>
       \A ij \in AcceptedPositions :
         Cardinality({ k \in 1..Length(requests) :
                         Bodies(requests)[k] = Pair(urls[ij[1]], formFactor[ij[2]]) }) = 1
  /\ fetchReturn = "returned" =>
       \A ij \in AcceptedPositions :
         Cardinality({ k \in 1..Length(executionRecords) :
                         /\ executionRecords.arr[k].url = Str(urls[ij[1]])
                         /\ executionRecords.arr[k].formFactor = Str(formFactor[ij[2]]) }) = 1

\* C3 amended: every accepted occurrence of a pair in the configured lists
\* has exactly one descriptor and, after fetchData, exactly one record, in
\* the same order; a pair appears as often as the lists repeat it, none is
\* dropped.
C3_OnePerOccurrence ==
  /\ ~Falsy(requests) =>
       /\ Length(requests) = Cardinality(AcceptedPositions)
       /\ \A ij \in AcceptedPositions :
            Cardinality({ k \in 1..Length(requests) :
                            Bodies(requests)[k] = Pair(urls[ij[1]], formFactor[ij[2]]) })
              = Cardinality({ xy \in AcceptedPositions :
                                /\ urls[xy[1]] = urls[ij[1]]
                                /\ formFactor[xy[2]] = formFactor[ij[2]] })
  /\ fetchReturn = "returned" =>
       /\ Length(executionRecords) = Length(requests)
       /\ \A k \in 1..Length(requests) :
            /\ executionRecords.arr[k].url = Bodies(requests)[k].url
            /\ executionRecords.arr[k].formFactor = Bodies(requests)[k].formFactor

\* fetchData has returned for a list in which a url is repeated, the first
\* of the two requests having thrown.
C3_Witness ==
  /\ fetchReturn = "returned"
  /\ Length(requests) = 2
  /\ Bodies(requests)[1] = Bodies(requests)[2]
  /\ Length(executionRecords) = 2
  /\ executionRecords.arr[1].responseCode = Dash

\* The cross-product of two lists in first-list-major order.
CrossProduct(us, fs) ==
  [k \in 1..(Len(us) * Len(fs)) |->
     Pair(us[((k - 1) \div Len(fs)) + 1], fs[((k - 1) % Len(fs)) + 1])]

\* C4: buildRequestUrls leaves exactly the cross-product of the valid urls
\* and the accepted form factors, in url-major order, each body carrying
\* that url and formFactor; invalid entries are skipped without raising.
C4_CrossProductUrlMajor ==
  ~Falsy(requests) =>
    /\ Bodies(requests) = CrossProduct(ValidUrls(urls), ValidFactors(formFactor))
    /\ Length(requests) > 0 => thrown = ""

\* Two valid urls and two accepted form factors: four descriptors, the two
\* of the first url first.
C4_Witness ==
  /\ ~Falsy(requests)
  /\ Length(requests) = 4
  /\ Bodies(requests)[1].url = Bodies(requests)[2].url
  /\ Bodies(requests)[1].url # Bodies(requests)[3].url
  /\ Bodies(requests)[1].formFactor # Bodies(requests)[2].formFactor

NoValidCombination ==
  ValidUrls(urls) = <<>> \/ ValidFactors(formFactor) = <<>>

\* C5: when no configured combination is valid, buildRequestUrls raises and
\* run aborts with that error, no HTTP request issued and neither table
\* touched.
C5_NoCombinationAbortsEarly ==
  (NoValidCombination /\ pc \notin {"idle", "PLANNING"}) =>
    /\ pc \in {"CATCH", "FAILED"}
    /\ thrown = NoCombinationsError
    /\ httpLog = <<>>
    /\ flushLog = <<>>
    /\ <<dataSheet, historySheet>> = sheets0
    /\ summary = Undefined
    /\ pc = "FAILED" => leaving = NoCombinationsError

\* run has failed on a configuration without a valid combination, the
\* spreadsheet holding both tabs.
C5_Witness ==
  /\ NoValidCombination
  /\ pc = "FAILED"
  /\ leaving = NoCombinationsError
  /\ ~Falsy(sheets0[1])
  /\ ~Falsy(sheets0[2])

\* The number of records with status SUCCESS.
SuccessCount(recs) ==
  Cardinality({ k \in 1..Length(recs) : recs.arr[k].status = Str("SUCCESS") })

\* C6: every request outcome gives exactly one record: a transport failure
\* FAILED with responseCode "-" and the transport message; a status other
\* than 200 FAILED with that status and the body in the message; a 200
\* with an unparsable body FAILED with 200 and a parse-error message; a 200
\* with JSON SUCCESS with message "-" and the payload appended to the
\* success list; the success list holds one payload per SUCCESS record.
C6_Classification ==
  [][(pc = "FETCH_RECORD" /\ pc' # "FETCH_RECORD") =>
       LET out == response
           rec == executionRecords'.arr[Length(executionRecords')]
       IN  /\ Length(executionRecords') = Length(executionRecords) + 1
           /\ out.threw =>
                /\ rec.status = Str("FAILED")
                /\ rec.responseCode = Str("-")
                /\ rec.errorMessage = Str("Fetch error: " \o out.message)
                /\ filteredResponse' = filteredResponse
           /\ (~out.threw /\ out.code # 200) =>
                /\ rec.status = Str("FAILED")
                /\ rec.responseCode = Num(out.code)
                /\ rec.errorMessage = Str("Non-200 response: " \o out.text.garbage)
                /\ filteredResponse' = filteredResponse
           /\ (~out.threw /\ out.code = 200 /\ ~JSONParses(out.text)) =>
                /\ rec.status = Str("FAILED")
                /\ rec.responseCode = Num(200)
                /\ rec.errorMessage = Str("JSON parse error: Unexpected token")
                /\ filteredResponse' = filteredResponse
           /\ (~out.threw /\ out.code = 200 /\ JSONParses(out.text)) =>
                /\ rec.status = Str("SUCCESS")
                /\ rec.responseCode = Num(200)
                /\ rec.errorMessage = Dash
                /\ filteredResponse' = Push(filteredResponse, JSONParse(out.text))
           /\ SuccessCount(executionRecords') = Length(filteredResponse')
    ]_vars

\* A 200 with an unparsable body followed by a 200 with JSON.
C6_Witness ==
  /\ fetchReturn = "returned"
  /\ Length(executionRecords) = 2
  /\ executionRecords.arr[1].status = Str("FAILED")
  /\ executionRecords.arr[1].responseCode = Num(200)
  /\ executionRecords.arr[2].status = Str("SUCCESS")
  /\ Length(filteredResponse) = 1

C8_Original ==
  (fetchReturn # "none" /\ ~Falsy(filteredResponse) /\ Length(filteredResponse) = 0)
    => fetchReturn = "threw"

\* C8 amended: fetchData returns its list, empty or not, without raising;
\* with zero payloads run then fails with the no-successful-responses error
\* before normalizing; request failures are recorded and never raised while
\* at least one payload succeeded.
C8_RunRaisesAfterFetch ==
  /\ fetchReturn # "threw"
  /\ pc \in {"FETCH_REQUEST", "FETCH_RECORD", "FETCH_RETURN", "FETCH_CHECK"} => thrown = ""
  /\ (fetchReturn = "returned" /\ pc # "FETCH_CHECK") =>
       IF Length(filteredResponse) = 0
         THEN /\ pc \in {"CATCH", "FAILED"}
              /\ thrown = NoSuccessError
              /\ normalizedResponse = Undefined
              /\ SuccessCount(executionRecords) = 0
         ELSE thrown \notin {NoSuccessError, NoRequestsError, NoResponsesError}

\* Both requests failed and run has failed with the no-successful-responses
\* error.
C8_Witness ==
  /\ pc = "FAILED"
  /\ fetchReturn = "returned"
  /\ leaving = NoSuccessError
  /\ Length(executionRecords) = 2

\* The audit rows appended since the instance was created (a header written
\* on creation is not one of them).
AuditGain ==
  IF Falsy(historySheet) THEN <<>>
  ELSE SubSeq(historySheet.arr,
              IF Falsy(sheets0[2]) THEN 2 ELSE Len(sheets0[2].arr) + 1,
              Len(historySheet.arr))

\* The audit table has gained exactly one row per accumulated record, in
\* order, carrying the record's fields and run's executionId.
Flushed ==
  /\ Len(AuditGain) = Length(executionRecords)
  /\ \A k \in 1..Len(AuditGain) :
       LET rec == executionRecords.arr[k] IN
         /\ AuditGain[k][1] = Str(executionId)
         /\ SubSeq(AuditGain[k], 3, 8) =
              << rec.url, rec.formFactor, rec.status, rec.responseCode,
                 rec.errorMessage, rec.normalized >>

AbortedWithRecords ==
  /\ pc = "FAILED"
  /\ ~Falsy(executionRecords)
  /\ Length(executionRecords) > 0

StageErrors ==
  {NoCombinationsError, NoSuccessError, AllFailedError, SheetError(DataTab)}

Normalized == normalizedResponse # Undefined

\* The payload fetched by the request of record k: the SUCCESS records and
\* the success list were appended together, in the same order.
PayloadOf(k) ==
  filteredResponse.arr[
    Cardinality({ m \in 1..k : executionRecords.arr[m].status = Str("SUCCESS") })]

\* The request of record k fetched a payload that produced a row.
ProducedRow(k) ==
  /\ executionRecords.arr[k].status = Str("SUCCESS")
  /\ ~InvalidStructure(PayloadOf(k))

\* C11: after normalizeData, the record of every request whose payload
\* produced a row has normalized = YES and every other record has
\* normalized = NO, also for a payload whose key carries no formFactor and
\* for two descriptors of the same url and formFactor.
C11_FlippedForFetchingRequest ==
  Normalized =>
    \A k \in 1..Length(executionRecords) :
      executionRecords.arr[k].normalized =
        (IF ProducedRow(k) THEN Str("YES") ELSE Str("NO"))

\* The data rows appended since the instance was created (a header written
\* on creation is not one of them).
DataGain ==
  IF Falsy(dataSheet) THEN <<>>
  ELSE SubSeq(dataSheet.arr,
              IF Falsy(sheets0[1]) THEN 2 ELSE Len(sheets0[1].arr) + 1,
              Len(dataSheet.arr))

\* C12: an audit row with Normalized = YES is written only for a response
\* whose normalized row was written to the data table in the same run; a
\* response whose row was not written is audited with Normalized = NO.
C12_YesOnlyIfWritten ==
  \A k \in 1..Len(AuditGain) :
    AuditGain[k][8] = Str("YES") =>
      \E j \in 1..Len(DataGain) :
        /\ DataGain[j][3] = AuditGain[k][3]
        /\ DataGain[j][2] = AuditGain[k][4]

\* The four tracked metrics in the order of their cells in a row.
TrackedMetrics ==
  << "largest_contentful_paint", "first_input_delay",
     "cumulative_layout_shift", "first_contentful_paint" >>

\* obj has a field f holding a value.
Present(obj, f) == f \in DOMAIN obj /\ obj[f] \notin {Undefined, Null}

\* The density of bucket i (0-based) of a metric of the payload, "-" when
\* the metric, its histogram, that bucket or its density is missing.
PayloadDensity(metrics, name, i) ==
  IF ~Present(metrics, name) THEN Dash
  ELSE IF ~Present(metrics[name], "histogram") THEN Dash
  ELSE IF i + 1 > Len(metrics[name].histogram.arr) THEN Dash
  ELSE IF ~Present(metrics[name].histogram.arr[i + 1], "density") THEN Dash
  ELSE metrics[name].histogram.arr[i + 1].density

\* The p75 of a metric of the payload, "-" when the metric, its percentiles
\* or the p75 field is missing.
PayloadP75(metrics, name) ==
  IF ~Present(metrics, name) THEN Dash
  ELSE IF ~Present(metrics[name], "percentiles") THEN Dash
  ELSE IF ~Present(metrics[name].percentiles, "p75") THEN Dash
  ELSE metrics[name].percentiles.p75

\* C13: for each tracked metric independently, its four cells are the
\* densities of buckets 0, 1, 2 and the p75 of the payload, each the
\* payload's value when present and "-" when the metric, the histogram, the
\* bucket entry or the percentile field is missing; no cell depends on
\* another field.
C13_CellsPerMetric ==
  (~Falsy(normalizedResponse) /\ Length(normalizedResponse) = 1) =>
    LET metrics == filteredResponse.arr[1].record.metrics
        row     == normalizedResponse.arr[1]
    IN  \A q \in 1..4 :
          /\ \A i \in 0..2 :
               row[3 + 4 * (q - 1) + i + 1] = PayloadDensity(metrics, TrackedMetrics[q], i)
          /\ row[3 + 4 * q] = PayloadP75(metrics, TrackedMetrics[q])

\* LCP with a first bucket of density 0, a second bucket without density,
\* no third bucket and a p75; FID absent; FCP fully populated.
C13_Witness ==
  /\ ~Falsy(normalizedResponse)
  /\ Length(normalizedResponse) = 1
  /\ SubSeq(normalizedResponse.arr[1], 4, 11) =
       << Num(0), Dash, Dash, Num(2500), Dash, Dash, Dash, Dash >>
  /\ normalizedResponse.arr[1][16] = Num(65)

\* C14: in every normalized row a cell whose source value is absent from the
\* payload holds "-", the url cell of a key without url included, and no
\* cell is left undefined or empty.
C14_AbsentIsDash ==
  (~Falsy(normalizedResponse) /\ Length(normalizedResponse) = 1) =>
    LET key == filteredResponse.arr[1].record.key
        row == normalizedResponse.arr[1]
    IN  /\ \A c \in 1..Len(row) : row[c] \notin {Undefined, Null, Str("")}
        /\ row[3] = (IF Present(key, "url") THEN key.url ELSE Dash)
        /\ \A q \in 1..4 :
             ~Present(filteredResponse.arr[1].record.metrics, TrackedMetrics[q]) =>
               SubSeq(row, 4 * q, 4 * q + 3) = <<Dash, Dash, Dash, Dash>>

\* The payload has both record.key and record.metrics.
HasKeyAndMetrics(p) ==
  /\ "record" \in DOMAIN p
  /\ Present(p.record, "key")
  /\ Present(p.record, "metrics")

\* The payloads of the success list that have both, in payload order.
RowPayloads == SelectSeq(filteredResponse.arr, HasKeyAndMetrics)

\* C15: normalizeData produces one row per payload that has both record.key
\* and record.metrics, in payload order, skipping every other payload
\* without raising; it raises the all-failed error exactly when zero rows
\* were produced from a non-empty input, and run then aborts before
\* anything is written to the data table.
C15_OneRowPerValidPayload ==
  Normalized =>
    /\ Length(filteredResponse) > 0
    /\ Length(normalizedResponse) = Len(RowPayloads)
    /\ \A k \in 1..Len(RowPayloads) :
         /\ normalizedResponse.arr[k][3] = RowPayloads[k].record.key.url
         /\ normalizedResponse.arr[k][4] =
              PayloadDensity(RowPayloads[k].record.metrics, TrackedMetrics[1], 0)
    /\ (thrown = AllFailedError) <=> (Len(RowPayloads) = 0)
    /\ thrown # NoResponsesError
    /\ thrown = AllFailedError =>
         /\ pc \in {"CATCH", "FAILED"}
         /\ dataSheet = sheets0[1]

\* Two payloads, the first without a record: one row, the second payload's.
C15_Witness ==
  /\ Normalized
  /\ Length(filteredResponse) = 2
  /\ ~HasKeyAndMetrics(filteredResponse.arr[1])
  /\ Length(normalizedResponse) = 1
  /\ normalizedResponse.arr[1][3] = Str("http://b.org")
  /\ thrown = ""

\* The list a stage takes as input has not been populated.
Unpopulated(list) == list = Undefined \/ Length(list) = 0

\* The call issued no request, wrote to no table and left the instance's
\* requests, responses, records and rows as they were.
NoEffect ==
  UNCHANGED <<requests, filteredResponse, executionRecords, normalizedResponse,
              dataSheet, historySheet, httpLog, sleeps>>

\* C16: a stage called before its prerequisite has populated its input
\* raises its sequence error and has no effect: fetchData before
\* buildRequestUrls, normalizeData before fetchData, addToSpreadsheet before
\* normalizeData.
C16_OutOfOrderHasNoEffect ==
  [][/\ (Unpopulated(requests) /\ CallFetchData) =>
          (thrown' = NoRequestsError /\ NoEffect)
     /\ (Unpopulated(filteredResponse) /\ CallNormalizeData) =>
          (thrown' = NoResponsesError /\ NoEffect)
     /\ (Unpopulated(normalizedResponse) /\ CallAddToSpreadsheet) =>
          (thrown' = NoDataError /\ NoEffect)
    ]_vars

\* addToSpreadsheet was called after fetchData and before normalizeData on
\* an instance that holds a fetched payload.
C16_Witness ==
  /\ thrown = NoDataError
  /\ ~Unpopulated(filteredResponse)
  /\ normalizedResponse = Undefined
  /\ dataSheet = sheets0[1]
  /\ Len(httpLog) = 1

\* The rows of a tab, none when the tab is absent.
RowsOf(sheet) == IF Falsy(sheet) THEN <<>> ELSE sheet.arr

\* Every addToSpreadsheet call leaves the rows the tab held where they were,
\* and a call that returns has written its rows, in order, directly below
\* the last populated row.
AppendsBelow ==
  /\ CallAddToSpreadsheet =>
       SubSeq(RowsOf(dataSheet'), 1, Len(RowsOf(dataSheet))) = RowsOf(dataSheet)
  /\ (CallAddToSpreadsheet /\ thrown' = "") =>
       SubSeq(RowsOf(dataSheet'),
              Len(RowsOf(dataSheet')) - Length(normalizedResponse) + 1,
              Len(RowsOf(dataSheet'))) = normalizedResponse.arr

\* C17: across any number of addToSpreadsheet calls against the same tab no
\* existing row is overwritten, each call writes its rows, in order,
\* directly below the last populated row, and the 19-column header is
\* written only when the tab was absent, exactly once, above every data row.
C17_AppendOnlyUnderHeader ==
  [][/\ AppendsBelow
     /\ (CallAddToSpreadsheet /\ thrown' = "") =>
          /\ Len(RowsOf(dataSheet')) =
               (IF Falsy(dataSheet) THEN 1 ELSE Len(RowsOf(dataSheet)))
               + Length(normalizedResponse)
          /\ RowsOf(dataSheet')[1] = DataHeaders
          /\ \A k \in 2..Len(RowsOf(dataSheet')) : RowsOf(dataSheet')[k] # DataHeaders
    ]_vars

\* The logExecutionHistory calls that were given at least one record and
\* whose try block completed.
Flushes ==
  { k \in DOMAIN flushLog : flushLog[k].count >= 1 /\ ~flushLog[k].failed }

\* The number of records of the first k calls that are in Flushes.
RECURSIVE FlushedCount(_)
FlushedCount(k) ==
  IF k = 0 THEN 0
  ELSE FlushedCount(k - 1) + (IF k \in Flushes THEN flushLog[k].count ELSE 0)

\* The row of the audit tab that flush k wrote for its j-th record.
AuditRow(k, j) == historySheet.arr[flushLog[k].startRow + j - 1]

\* The rows of every flush are where it wrote them: n rows of 8 cells, in
\* record order, directly below the row that was last when it was called.
FlushRowsInPlace ==
  \A k \in Flushes :
    /\ flushLog[k].startRow =
         (IF Falsy(flushLog[k].found) THEN 2 ELSE GetLastRow(flushLog[k].found) + 1)
    /\ flushLog[k].startRow + flushLog[k].count - 1 <= GetLastRow(historySheet)
    /\ \A j \in 1..flushLog[k].count :
         /\ Len(AuditRow(k, j)) = 8
         /\ AuditRow(k, j)[1] = Str(flushLog[k].id)
         /\ AuditRow(k, j)[2] = Str(flushLog[k].timestamp)
         /\ AuditRow(k, j)[3] = flushLog[k].records.arr[j].url

\* C18: logExecutionHistory called with n >= 1 records appends exactly n
\* rows of 8 cells, in record order, directly below the last populated row
\* of the executionHistory tab, creating the tab with its 8-column header
\* first when it is absent; rows of earlier flushes are never overwritten:
\* after k flushes the tab holds the header plus the flushed records.
C18_FlushAppendsUnderHeader ==
  /\ FlushRowsInPlace
  /\ Flushes # {} =>
       /\ historySheet.arr[1] = HistoryHeaders
       /\ GetLastRow(historySheet) =
            (IF Falsy(sheets0[2]) THEN 1 ELSE GetLastRow(sheets0[2]))
            + FlushedCount(Len(flushLog))

\* The value of a field of a record as the claim has it written: as is when
\* the record has the field, else the default.
AsIsOr(rec, field, default) ==
  IF field \in DOMAIN rec THEN rec[field] ELSE default

\* C19: every audit row of one flush carries the same executionId and the
\* same timestamp, and each field of a record is written as is when present
\* and defaulted when absent (responseCode "-", errorMessage "-",
\* normalized "NO", status "UNKNOWN"); a present value is never replaced.
C19_FieldsAsIsOrDefault ==
  \A k \in Flushes :
    \A j \in 1..flushLog[k].count :
      LET rec == flushLog[k].records.arr[j] IN
        AuditRow(k, j) =
          << Str(flushLog[k].id), Str(flushLog[k].timestamp),
             AsIsOr(rec, "url", Dash),
             AsIsOr(rec, "formFactor", Dash),
             AsIsOr(rec, "status", Str("UNKNOWN")),
             AsIsOr(rec, "responseCode", Dash),
             AsIsOr(rec, "errorMessage", Dash),
             AsIsOr(rec, "normalized", Str("NO")) >>

\* The invocations of main that went past the duplicate check.
PassedGuard == { k \in DOMAIN mainLog : mainLog[k].loaded }

\* C20: within one process lifetime main runs the pipeline at most once:
\* the flag is set at the start of the first invocation and never reset,
\* whether that invocation returns a summary or raises, and every later
\* invocation returns at once without loading the configuration, issuing a
\* request or writing to a table.
C20_MainRunsOnce ==
  [][/\ executionFlag => executionFlag'
     /\ Len(mainLog') > Len(mainLog) =>
          /\ executionFlag'
          /\ mainLog # <<>> =>
               /\ mainLog'[Len(mainLog')] = [did |-> "duplicate", loaded |-> FALSE]
               /\ UNCHANGED <<requests, filteredResponse, executionRecords,
                              normalizedResponse, dataSheet, historySheet, pc,
                              executionId, summary, leaving, httpLog, sleeps,
                              flushLog>>
     /\ Cardinality(PassedGuard') <= 1
     /\ executionId # "" => executionId' = executionId
     /\ pc' # "idle" => executionFlag'
    ]_vars

\* main was invoked three times: the run of the first returned its summary
\* after one request, the two later invocations returned at once.
C20_Witness ==
  /\ pc = "DONE"
  /\ summary # Undefined
  /\ Len(mainLog) = 3
  /\ mainLog[1].did = "started"
  /\ mainLog[2].did = "duplicate"
  /\ mainLog[3].did = "duplicate"
  /\ Len(httpLog) = 1
  /\ executionFlag

\* C21: all audit rows written during one call of run carry one and the
\* same executionId, generated once at entry of run; on success it is the
\* executionId of the returned summary; rows flushed on the abort path
\* carry it too.
C21_OneExecutionIdPerRun ==
  /\ pc = "idle" => executionId = ""
  /\ pc # "idle" => executionId \in ExecIds
  /\ \A k \in 1..Len(AuditGain) : AuditGain[k][1] = Str(executionId)
  /\ summary # Undefined => summary.executionId = executionId

\* run has returned its summary after flushing two records below the audit
\* rows of an earlier execution, which carry another executionId.
C21_Witness ==
  /\ pc = "DONE"
  /\ summary # Undefined
  /\ ~Falsy(sheets0[2])
  /\ Len(AuditGain) = 2
  /\ historySheet.arr[2][1] # Str(executionId)
  /\ AuditGain[1][1] = Str(summary.executionId)

\* The number of rows of a list of audit rows with a given Status cell.
StatusCount(rows, status) ==
  Cardinality({ k \in 1..Len(rows) : rows[k][5] = Str(status) })

BlankStrings == {"", " ", "   "}

\* v is a string with at least one non-whitespace character.
NonBlankString(v) == "str" \in DOMAIN v /\ v.str \notin BlankStrings

\* v is a non-empty array of non-blank strings.
NonBlankStringList(v) ==
  /\ "arr" \in DOMAIN v
  /\ Len(v.arr) > 0
  /\ \A k \in 1..Len(v.arr) : NonBlankString(v.arr[k])

\* Strings without surrounding whitespace, and the whitespace around them.
CleanStrings == {"https://a.com", "http://b.org", "PHONE", "test-sheet-id", "test-api-key"}
Pads == {"", " ", "  "}

\* stored is raw without its surrounding whitespace.
IsTrimOf(stored, raw) ==
  /\ stored \in CleanStrings
  /\ \E l \in Pads, r \in Pads : raw = l \o stored \o r

\* stored holds the trimmed entries of the array raw, in order.
IsTrimOfList(stored, raw) ==
  /\ Len(stored) = Len(raw.arr)
  /\ \A k \in 1..Len(stored) : IsTrimOf(stored[k], raw.arr[k].str)

\* The configuration the claim accepts.
AcceptableConfig(cfg) ==
  /\ NonBlankStringList(cfg.urls)
  /\ NonBlankString(cfg.spreadsheetId)
  /\ NonBlankString(cfg.apiKey)
  /\ cfg.formFactor = Undefined \/ NonBlankStringList(cfg.formFactor)

\* C23: constructing a CruxExtractor fails, leaving no instance and touching
\* neither the network nor any sheet, whenever urls is not a non-empty array
\* of non-blank strings, spreadsheetId or apiKey is not a non-blank string,
\* or a given formFactor is not a non-empty array of non-blank strings;
\* otherwise it succeeds and stores the trimmed urls, spreadsheetId, apiKey
\* and form factors, formFactor defaulting to the three tokens and
\* sheetTabName to "cruxData".
C23_ConstructorValidatesAndTrims ==
  pc \in {"idle", "threw"} =>
    /\ httpLog = <<>> /\ sleeps = 0 /\ flushLog = <<>>
    /\ dataSheet = sheets0[1] /\ historySheet = sheets0[2]
    /\ IF AcceptableConfig(config)
         THEN /\ pc = "idle" /\ thrown = ""
              /\ IsTrimOfList(urls, config.urls)
              /\ IsTrimOf(self.spreadsheetId, config.spreadsheetId.str)
              /\ IsTrimOf(self.apiKey, config.apiKey.str)
              /\ IF config.formFactor = Undefined
                   THEN formFactor = <<"PHONE", "DESKTOP", "ALL_FORM_FACTORS">>
                   ELSE IsTrimOfList(formFactor, config.formFactor)
              /\ self.sheetTabName =
                   IF config.sheetTabName = Undefined THEN "cruxData"
                   ELSE config.sheetTabName.str
         ELSE /\ pc = "threw" /\ thrown # ""
              /\ self = Undefined /\ urls = <<>> /\ formFactor = <<>>

\* A construction from padded values and no formFactor succeeded.
C23_Witness ==
  /\ pc = "idle"
  /\ config.urls = Arr(<<Str("  https://a.com  "), Str("https://a.com")>>)
  /\ config.spreadsheetId = Str("  test-sheet-id  ")
  /\ config.formFactor = Undefined
  /\ config.sheetTabName = Undefined
  /\ urls = <<"https://a.com", "https://a.com">>
  /\ self.sheetTabName = "cruxData"

\* The step is a direct logExecutionHistory call given no records.
EmptyFlushStep ==
  /\ Len(flushLog') = Len(flushLog) + 1
  /\ flushLog'[Len(flushLog')].at = "direct"
  /\ flushLog'[Len(flushLog')].records \in {Undefined, Arr(<<>>)}

\* C24: logExecutionHistory called with an empty or missing record list
\* writes no row, creates neither the executionHistory tab nor its header,
\* leaves both tables as they were, and raises nothing.
C24_EmptyFlushIsNoOp ==
  [][EmptyFlushStep =>
       /\ historySheet' = historySheet
       /\ dataSheet' = dataSheet
       /\ thrown' = ""]_vars

\* Calls with the empty array and with no array both happened while the
\* executionHistory tab did not exist, and it still does not.
C24_Witness ==
  /\ Len(flushLog) = 2
  /\ flushLog[1].records = Arr(<<>>)
  /\ flushLog[2].records = Undefined
  /\ flushLog[1].found = Undefined
  /\ historySheet = Undefined

\* run returned after one request whose 200 response carried the requested
\* key and all four metrics, each with three buckets and a p75.
CompleteRunOverOneFullResponse ==
  /\ pc = "DONE"
  /\ Length(requests) = 1
  /\ Length(filteredResponse) = 1
  /\ HasKeyAndMetrics(filteredResponse.arr[1])
  /\ filteredResponse.arr[1].record.metrics = FullMetrics

\* The value is a JavaScript string.
IsString(v) == "str" \in DOMAIN v

Stage(p) ==
  IF p \in {"FETCH_ENTRY", "FETCH_REQUEST", "FETCH_RECORD", "FETCH_RETURN",
            "FETCH_CHECK"}
    THEN "FETCHING" ELSE p

\* The position of a stage in the order of run.
Rank(stage) ==
  CASE stage = "new"         -> 0 - 1
    [] stage = "idle"        -> 0
    [] stage = "PLANNING"    -> 1
    [] stage = "FETCHING"    -> 2
    [] stage = "NORMALIZING" -> 3
    [] stage = "WRITING"     -> 4
    [] stage = "LOGGING"     -> 5
    [] stage = "DONE"        -> 6

WorkStages == {"PLANNING", "FETCHING", "NORMALIZING", "WRITING", "LOGGING"}

\* A step that leaves a stage enters the next one, nothing having been
\* raised, or enters the catch block with the error the stage raised; the
\* catch block is left to FAILED only.
StageStep ==
  Stage(pc') # Stage(pc) =>
    \/ /\ Stage(pc) \in WorkStages \cup {"new", "idle"}
       /\ Stage(pc') \in WorkStages \cup {"idle", "DONE"}
       /\ Rank(Stage(pc')) = Rank(Stage(pc)) + 1
       /\ thrown' = ""
    \/ /\ Stage(pc) \in WorkStages
       /\ pc' = "CATCH"
       /\ thrown' # ""
    \/ pc = "CATCH" /\ pc' = "FAILED"

\* The success-path flush is made with the rows of the run in the data table.
WriteBeforeFlush ==
  (\E k \in DOMAIN flushLog : flushLog[k].at = "LOGGING") =>
    /\ Len(DataGain) = Length(normalizedResponse)
    /\ Len(DataGain) > 0
    /\ \A k \in 1..Len(DataGain) : DataGain[k] = normalizedResponse.arr[k]

\* DONE carries a summary and no error; FAILED carries one error, the one
\* the failing stage raised, and no summary.
OneOutcome ==
  /\ pc = "DONE" => (summary # Undefined /\ leaving = "" /\ thrown = "")
  /\ pc = "FAILED" => (summary = Undefined /\ leaving # "" /\ leaving = thrown)
  /\ pc \notin {"DONE", "FAILED"} => (summary = Undefined /\ leaving = "")

\* C26: run moves through PLANNING, FETCHING, NORMALIZING, WRITING, LOGGING
\* in that order, entering each stage at most once and only after the
\* previous one completed without raising; the data-table write precedes
\* the success-path audit flush; every run ends in exactly one terminal
\* outcome, DONE with a summary or FAILED with one propagated error.
C26_StagesInOrderToOneOutcome ==
  /\ [][StageStep]_vars
  /\ [](WriteBeforeFlush /\ OneOutcome)
  /\ <>[](pc \in {"DONE", "FAILED"})

\* A run that went through all five stages and returned its summary.
C26_Witness ==
  /\ pc = "DONE"
  /\ summary.rowsWritten >= 1
  /\ Len(flushLog) = 1
  /\ flushLog[1].at = "LOGGING"
  /\ Len(DataGain) = summary.rowsWritten

\* The row is the normalization of one of the payloads the instance holds
\* from its most recent fetchData call.
FromLatestFetch(row) ==
  /\ ~Falsy(filteredResponse)
  /\ \E j \in 1..Length(filteredResponse), d \in Dates :
       /\ ~InvalidStructure(filteredResponse.arr[j])
       /\ row = NormalizedRow(filteredResponse.arr[j], d)

\* C27: over any sequence of direct calls of the four stages on one
\* instance, an addToSpreadsheet call that returns has written only rows
\* normalized from the payloads returned by the most recent fetchData call;
\* rows left over from an earlier fetch are never written.
C27_WritesOnlyLatestFetchRows ==
  [][(dataSheet' # dataSheet /\ thrown' = "") =>
       \A k \in 1..Length(normalizedResponse) :
         FromLatestFetch(normalizedResponse.arr[k])]_vars

\* run has ended after reaching the fetch stage.
EndedAfterFetching ==
  /\ pc \in {"DONE", "FAILED"}
  /\ ~Falsy(executionRecords)

YesCount ==
  IF Falsy(executionRecords) THEN 0
  ELSE Cardinality({ k \in 1..Length(executionRecords) :
                       executionRecords.arr[k].normalized = Str("YES") })

\* The number of rows the Normalizer holds.
RowCount ==
  IF Falsy(normalizedResponse) THEN 0 ELSE Length(normalizedResponse)

\* C29: in every reachable state a record has normalized = YES only if its
\* status is SUCCESS (a FAILED record is never flipped), and the records
\* with normalized = YES are never more than the rows the Normalizer
\* produced.
C29_YesOnlyOnSuccessWithinRows ==
  /\ ~Falsy(executionRecords) =>
       \A k \in 1..Length(executionRecords) :
         executionRecords.arr[k].normalized = Str("YES") =>
           executionRecords.arr[k].status = Str("SUCCESS")
  /\ YesCount <= RowCount

\* The same url requested twice, the first request failed and the second
\* succeeded: only the SUCCESS record was flipped.
C29_Witness ==
  /\ ~Falsy(executionRecords)
  /\ Length(executionRecords) = 2
  /\ executionRecords.arr[1].url = executionRecords.arr[2].url
  /\ executionRecords.arr[1].status = Str("FAILED")
  /\ executionRecords.arr[1].normalized = Str("NO")
  /\ executionRecords.arr[2].status = Str("SUCCESS")
  /\ executionRecords.arr[2].normalized = Str("YES")
  /\ RowCount = 1

\* The errors with which run aborts in PLANNING, FETCHING or NORMALIZING.
EarlyErrors ==
  {NoCombinationsError, NoRequestsError, NoSuccessError, NoResponsesError,
   AllFailedError}

\* C30: when run aborts in PLANNING, FETCHING or NORMALIZING the data table
\* is as it was before the run: the tab is not created, no header is
\* written and no row is appended; up to the WRITING stage no step of run
\* touches it. Only the audit table may have changed.
C30_EarlyAbortLeavesDataTable ==
  /\ (pc = "FAILED" /\ leaving \in EarlyErrors) => dataSheet = sheets0[1]
  /\ Stage(pc) \in {"idle", "PLANNING", "FETCHING", "NORMALIZING", "WRITING"} =>
       dataSheet = sheets0[1]
  /\ (pc = "CATCH" /\ thrown \in EarlyErrors) => dataSheet = sheets0[1]

\* Every payload failed normalization: run aborted, the data tab still does
\* not exist and the audit tab was created and holds the record.
C30_Witness ==
  /\ pc = "FAILED"
  /\ leaving = AllFailedError
  /\ sheets0 = <<Undefined, Undefined>>
  /\ dataSheet = Undefined
  /\ Len(AuditGain) >= 1

====
